---- MODULE Spec2Model ----
(***************************************************************************)
(* Vote casting in the campus election server: the POST /api/student/vote *)
(* handler of server/routes.ts over the in-memory store (MemStorage) of    *)
(* server/storage.ts, behind the session middleware of server/auth.ts.     *)
(*                                                                         *)
(* Every `await` of a handler ends an atomic step: the code up to the next *)
(* await (the callee's body up to its own first await included) is one     *)
(* action, and between two actions of one request any other request may    *)
(* run.                                                                    *)
(***************************************************************************)
EXTENDS Integers, Sequences, FiniteSets, TLC

\* ------------------------------------------------------------------ bounds
\* Position ids a request or an administrator may name: 1..MaxPositionId.
MaxPositionId == 2
\* Candidate ids a request or an administrator may name: 1..MaxCandidateId.
MaxCandidateId == 2

PositionIds == 1..MaxPositionId
CandidateIds == 1..MaxCandidateId
\* Cast requests admitted in one behaviour.
MaxCasts == 2
\* Tally reads admitted in one behaviour.
MaxReads == 2
\* Student profiles in the directory of a participation report.
MaxStudents == 3
\* Department ids: 1..MaxDepartmentId.
MaxDepartmentId == 2

DepartmentIds == 1..MaxDepartmentId

\* The request slots: how many cast requests can be in flight together.
Requests == {"r1", "r2"}

\* Elections created in one behaviour.
MaxElections == 2
\* The length of the positions array of an election form.
MaxFormPositions == 2

\* The WebSocket connections that can be open together.
WebSockets == {"w1", "w2"}
\* Messages a client has sent that the server has not handled yet.
MaxInbound == 1

\* The slots of the registration requests: how many can be in flight together.
RegRequests == {"g1", "g2"}

\* The slots of the tally reads: how many can be in flight together.
TallyRequests == {"q1", "q2"}

\* ------------------------------------------------------------- directory
\* req.user when no session user was deserialized.
NoUser == "anonymous"
\* The value of an absent map entry / a failed find().
NoStudent == 0

\* UserRole of shared/schema.ts.
RoleAdmin == "admin"
RoleStudent == "student"

VARIABLES
    departmentStore,    \* MemStorage.departmentStore: the ids present
    studentDepartmentId, \* MemStorage.studentStore: id -> departmentId of the profile
    userStore,          \* MemStorage.userStore: username -> role
    studentStore,       \* MemStorage.studentStore: id -> studentId (the username)
    positionStore,      \* MemStorage.positionStore: the ids present
    positionIdCounter,  \* MemStorage.positionIdCounter
    candidateStore,     \* MemStorage.candidateStore: id -> [studentId, positionId]
    candidateIdCounter, \* MemStorage.candidateIdCounter
    voteStore,          \* MemStorage.voteStore: id -> [studentId, positionId, candidateId]
    voteIdCounter,      \* MemStorage.voteIdCounter
    settingStore,       \* MemStorage.settingStore: key -> value
    req,                \* the cast requests in flight, one record per slot
    resets,             \* history: per slot, did a reset run since the request arrived
    casts,              \* history: the number of cast requests admitted so far
    resetLog,           \* history: the last reset-votes request and what it did
    tally,              \* the tally reads in flight, one record per slot
    reads,              \* history: the number of tally reads admitted so far
    stats,              \* the votes-by-department request in flight
    probe,              \* the has-voted probe in flight
    deleteLog,          \* history: the last delete-candidate request and what it did
    verifiedStudentIdStore, \* MemStorage.verifiedStudentIdStore: studentId -> isRegistered
    userAccounts,       \* MemStorage.userStore: the usernames of the accounts that
                        \* registration added, in the order of their ids
    reg,                \* the registration requests in flight, one record per slot
    clients,            \* registerRoutes: clients, the Map ws -> { type }
    sockets,            \* per connection: readyState, the messages on their way
                        \* to the server, and (history) the role the hook announced
    sent,               \* history: the last broadcastUpdate, its role and receivers
    electionStore,      \* MemStorage.electionStore: id -> [positions]
    electionPositionStore \* MemStorage.electionPositionStore: the entries
                        \* [electionId, positionId]

\* The store and the cast requests.
castVars == <<departmentStore, studentDepartmentId,
              userStore, studentStore, positionStore, positionIdCounter,
              candidateStore, candidateIdCounter, voteStore, voteIdCounter,
              settingStore, req, resets, casts>>

\* What the requests that read the ledger write.
\* The requests beside the casts, the tally reads and the report.
\* The registration requests and what only they write.
regVars == <<verifiedStudentIdStore, userAccounts, reg>>

\* The variables of the requests modelled after the probe.
\* The WebSocket server and its connections.
wsVars == <<clients, sockets, sent>>

\* The elections and their links to positions.
electionVars == <<electionStore, electionPositionStore>>

laterVars == <<regVars, wsVars, electionVars>>

restVars == <<probe, deleteLog, laterVars>>

readerVars == <<tally, reads, stats, restVars>>

\* What the cast requests never write.
observerVars == <<resetLog, readerVars>>

vars == <<castVars, observerVars>>

catalogVars == <<departmentStore, studentDepartmentId,
                 userStore, studentStore, positionStore, positionIdCounter,
                 candidateStore, candidateIdCounter>>

\* ------------------------------------------------------------ the store
\* The studentId strings of the verified students, in the order of their
\* registration.
StudentNumbers == <<"S1001", "S1002", "S1003", "S1004", "S1005">>

\* The accounts present after the administrator account of the constructor
\* and the registration of the verified students.
Usernames == {"admin", "S1001"}

\* What req.user can be: a stored account, or no session at all.
Requesters == Usernames \cup {NoUser}

\* A setting value as the admin may write it (z.string()).
SettingValues == {"true", "false"}

\* The settings the requests below read.
SettingKeys == {"votingEnabled", "resultsVisible"}

\* MemStorage.getSetting(key)
GetSetting(key) == settingStore[key]

\* A find() whose predicate does not compare the studentId: the first profile.
GetStudentByStudentIdAnyProfile(studentId) ==
    IF DOMAIN studentStore = {} THEN NoStudent
    ELSE CHOOSE id \in DOMAIN studentStore : \A other \in DOMAIN studentStore : id <= other

\* MemStorage.getStudentByStudentId(studentId): the first profile whose
\* studentId is the given string, or undefined.
GetStudentByStudentId(studentId) ==
    LET found == {id \in DOMAIN studentStore : studentStore[id] = studentId}
    IN  IF found = {} THEN NoStudent
        ELSE CHOOSE id \in found : \A other \in found : id <= other

\* A some() that compares the candidateId of the vote with the positionId.
HasStudentVotedForPositionWrongField(studentId, positionId) ==
    \E id \in DOMAIN voteStore :
        /\ voteStore[id].studentId = studentId
        /\ voteStore[id].candidateId = positionId

\* MemStorage.hasStudentVotedForPosition(studentId, positionId)
HasStudentVotedForPosition(studentId, positionId) ==
    \E id \in DOMAIN voteStore :
        /\ voteStore[id].studentId = studentId
        /\ voteStore[id].positionId = positionId

\* MemStorage.getCandidate(id) has a value
CandidateExists(id) == id \in DOMAIN candidateStore

\* The catalog's relation "candidate c is a candidate for position p".
CandidateBelongsToPosition(c, p) ==
    CandidateExists(c) /\ candidateStore[c].positionId = p

\* MemStorage.getPosition(id) has a value
PositionExists(id) == id \in positionStore

\* A filter that lets the votes of every position through.
VotesOfAnyPosition(store, positionId) == store

\* Array.from(store.values()).filter(vote => vote.positionId === positionId),
\* in the insertion order of the Map.
VotesByPosition(store, positionId) ==
    SelectSeq(store, LAMBDA vote : vote.positionId = positionId)

\* MemStorage.getVotesByPosition(positionId)
GetVotesByPosition(positionId) == VotesByPosition(voteStore, positionId)

\* The loop of getVotesCountByPosition over the votes left to visit:
\* voteCounts.set(candidateId, (voteCounts.get(candidateId) || 0) + 1), the
\* Map kept as the sequence of its entries in insertion order.
RECURSIVE CountVotes(_, _)
CountVotes(votes, voteCounts) ==
    IF votes = <<>> THEN voteCounts
    ELSE LET vote == Head(votes)
             at == {i \in DOMAIN voteCounts :
                        voteCounts[i].candidateId = vote.candidateId}
         IN  CountVotes(Tail(votes),
                IF at = {}
                THEN Append(voteCounts, [candidateId |-> vote.candidateId, count |-> 0 + 1])
                ELSE [i \in DOMAIN voteCounts |->
                        IF i \in at
                        THEN [voteCounts[i] EXCEPT !.count = @ + 1]
                        ELSE voteCounts[i]])

\* MemStorage.getVotesCountByPosition(positionId): the entries
\* {candidateId, count} of the votes of the position.
GetVotesCountByPosition(positionId) ==
    CountVotes(GetVotesByPosition(positionId), <<>>)

\* ------------------------------------------------------------ responses
Response(status, message) == [status |-> status, message |-> message]

NoResponse == Response(0, "")
AuthRequired == Response(401, "Authentication required")
AdminRequired == Response(403, "Admin privileges required")
VotingClosed == Response(403, "Voting is currently closed")
NotAuthenticated == Response(401, "Not authenticated")
ProfileNotFound == Response(404, "Student profile not found")
InvalidVoteData == Response(400, "Invalid vote data")
AlreadyVoted == Response(400, "You have already voted for this position")
VoteCast == Response(201, "Vote cast successfully")
\* res.status(500).json({ message: error.message }) for the error a
\* ws.send(message) of broadcastUpdate throws
SendFailed == Response(500, "WebSocket send failed")
\* res.status(500).json({ message: error.message }) for the error createVote throws
StorageDuplicate == Response(500, "Student has already voted for this position")

\* ------------------------------------------------------------- requests
\* A request body: positionId and candidateId as sent, or a body whose
\* fields are not the integers insertVoteSchema asks for. studentId: the
\* studentId the body carries, NoStudent when it carries none (the client
\* sends none).
WellFormedBodies ==
    {[wellFormed |-> TRUE, positionId |-> p, candidateId |-> c,
      studentId |-> NoStudent] :
        p \in PositionIds, c \in CandidateIds}
MalformedBody ==
    [wellFormed |-> FALSE, positionId |-> 0, candidateId |-> 0, studentId |-> NoStudent]
Bodies == WellFormedBodies \cup {MalformedBody}

\* The studentIds a hand-made body names: the profile of Init and one more.
NamedStudentIds == 1..2

\* The bodies that carry a studentId of their own.
BodiesNamingStudent ==
    {[body EXCEPT !.studentId = sid] : body \in WellFormedBodies, sid \in NamedStudentIds}

\* A spread in the other order, {studentId: student.id, ...req.body}: the
\* studentId of the body wins when there is one.
ValidatedDataBodyWins(body, student) ==
    [studentId |-> IF body.studentId # NoStudent THEN body.studentId ELSE student,
     positionId |-> body.positionId, candidateId |-> body.candidateId]

\* validatedData = insertVoteSchema.parse({...req.body, studentId: student.id}):
\* the studentId of the profile replaces whatever the body carries.
ValidatedData(body, student) ==
    [studentId |-> student, positionId |-> body.positionId,
     candidateId |-> body.candidateId]

\* insertVoteSchema.parse({...req.body, studentId}): succeeds exactly on
\* integer fields (a ZodError otherwise).
ParseSucceeds(body) == body.wellFormed

\* broadcastUpdate("voteCreated", {positionId, candidateId}): the message every
\* open client is sent.
VoteCreated(positionId, candidateId) ==
    [type |-> "voteCreated", positionId |-> positionId, candidateId |-> candidateId]

\* The slot of a request that has not arrived. broadcasts: the messages the
\* request handed to broadcastUpdate, in the order of the calls.
IdleRequest ==
    [pc |-> "idle", user |-> NoUser, body |-> MalformedBody,
     votingEnabled |-> "", student |-> NoStudent, hasVoted |-> FALSE,
     storageHasVoted |-> FALSE, vote |-> 0, broadcasts |-> <<>>,
     resp |-> NoResponse,
     votedAtArrival |-> FALSE, settingAtArrival |-> ""]

\* The middleware on /api/student/*: lets the request through exactly when
\* a session user is present.
StudentGate(user) == user # NoUser

\* The /api/admin/* middleware without its role check.
AdminGateAnyUser(user) ==
    IF user = NoUser THEN AuthRequired
    ELSE NoResponse

\* The middleware on /api/admin/*: the response that refuses the request, or
\* NoResponse when it calls next().
AdminGate(user) ==
    IF user = NoUser THEN AuthRequired
    ELSE IF userStore[user] # RoleAdmin THEN AdminRequired
    ELSE NoResponse

Finish(r, response) ==
    req' = [req EXCEPT ![r].pc = "done", ![r].resp = response]

\* A voting check that lets every value of the setting through.
VotingIsOpenAlways(value) == TRUE

\* if (votingEnabled !== "true") of the cast handler, negated
VotingIsOpen(value) == value = "true"

\* History: the ledger held a vote of this user's profile for the position
\* of the body when the request arrived.
LedgerHolds(user, body) ==
    \E id \in DOMAIN voteStore, sid \in DOMAIN studentStore :
        /\ studentStore[sid] = user
        /\ voteStore[id].studentId = sid
        /\ body.wellFormed
        /\ voteStore[id].positionId = body.positionId

\* ------------------------------------------------- POST /api/student/vote
\* The request arrives: the /api/student/* middleware, then the handler up to
\* its first await (the call of storage.getSetting).
CastArrive(r, user, body) ==
    /\ req[r].pc \in {"idle", "done"}
    /\ casts < MaxCasts
    /\ casts' = casts + 1
    /\ resets' = [resets EXCEPT ![r] = FALSE]
    /\ IF ~StudentGate(user)
       THEN req' = [req EXCEPT ![r] =
                [IdleRequest EXCEPT !.pc = "done", !.user = user, !.body = body,
                                    !.resp = AuthRequired,
                                    !.settingAtArrival = settingStore["votingEnabled"]]]
       ELSE req' = [req EXCEPT ![r] =
                [IdleRequest EXCEPT !.pc = "awaitSetting", !.user = user,
                                    !.body = body,
                                    !.votingEnabled = GetSetting("votingEnabled"),
                                    !.votedAtArrival = LedgerHolds(user, body),
                                    !.settingAtArrival = settingStore["votingEnabled"]]]
    /\ UNCHANGED <<catalogVars, voteStore, voteIdCounter, settingStore, observerVars>>

\* After `await storage.getSetting`: the voting check, the session check and
\* the call of storage.getStudentByStudentId.
CastAfterSetting(r) ==
    /\ req[r].pc = "awaitSetting"
    /\ IF ~VotingIsOpen(req[r].votingEnabled) THEN Finish(r, VotingClosed)
       ELSE IF req[r].user = NoUser THEN Finish(r, NotAuthenticated)
       ELSE req' = [req EXCEPT ![r].pc = "awaitStudent",
                               ![r].student = GetStudentByStudentId(req[r].user)]
    /\ UNCHANGED <<catalogVars, voteStore, voteIdCounter, settingStore, resets, casts,
                   observerVars>>

\* After `await storage.getStudentByStudentId`: the profile check, the parse
\* of the body and the call of storage.hasStudentVotedForPosition.
CastAfterStudent(r) ==
    /\ req[r].pc = "awaitStudent"
    /\ IF req[r].student = NoStudent THEN Finish(r, ProfileNotFound)
       ELSE IF ~ParseSucceeds(req[r].body) THEN Finish(r, InvalidVoteData)
       ELSE req' = [req EXCEPT ![r].pc = "awaitHasVoted",
                               ![r].hasVoted = HasStudentVotedForPosition(
                                    req[r].student, req[r].body.positionId)]
    /\ UNCHANGED <<catalogVars, voteStore, voteIdCounter, settingStore, resets, casts,
                   observerVars>>

\* After `await storage.hasStudentVotedForPosition`: the duplicate check and
\* the call of storage.createVote, which runs up to its own await.
CastAfterHasVoted(r) ==
    /\ req[r].pc = "awaitHasVoted"
    /\ IF req[r].hasVoted THEN Finish(r, AlreadyVoted)
       ELSE req' = [req EXCEPT ![r].pc = "inCreateVote",
                               ![r].storageHasVoted = HasStudentVotedForPosition(
                                    ValidatedData(req[r].body, req[r].student).studentId,
                                    ValidatedData(req[r].body, req[r].student).positionId)]
    /\ UNCHANGED <<catalogVars, voteStore, voteIdCounter, settingStore, resets, casts,
                   observerVars>>

\* A createVote that keys the Map by the student: the new vote takes the
\* place of the votes of the student.
CreateVoteResumeKeyedByStudent(r) ==
    /\ req[r].pc = "inCreateVote"
    /\ voteStore' = Append(SelectSeq(voteStore,
                                LAMBDA vote : vote.studentId # req[r].student),
                            [studentId |-> req[r].student,
                             positionId |-> req[r].body.positionId,
                             candidateId |-> req[r].body.candidateId])
    /\ voteIdCounter' = Len(voteStore') + 1
    /\ req' = [req EXCEPT ![r].pc = "awaitCreateVote", ![r].vote = Len(voteStore')]
    /\ UNCHANGED <<catalogVars, settingStore, resets, casts, observerVars>>

\* MemStorage.createVote after its await: throw, or assign the id and store.
CreateVoteResume(r) ==
    /\ req[r].pc = "inCreateVote"
    /\ IF req[r].storageHasVoted
       THEN /\ req' = [req EXCEPT ![r].pc = "awaitCreateVote"]
            /\ UNCHANGED <<voteStore, voteIdCounter>>
       ELSE /\ voteStore' = Append(voteStore,
                                ValidatedData(req[r].body, req[r].student))
            /\ voteIdCounter' = voteIdCounter + 1
            /\ req' = [req EXCEPT ![r].pc = "awaitCreateVote",
                                  ![r].vote = voteIdCounter]
    /\ UNCHANGED <<catalogVars, settingStore, resets, casts, observerVars>>

\* A handler that calls broadcastUpdate before it looks at what createVote
\* returned.
CastAfterCreateVoteBroadcastFirst(r, sendThrows) ==
    /\ req[r].pc = "awaitCreateVote"
    /\ req' = [req EXCEPT
            ![r].pc = "done",
            ![r].broadcasts = Append(@, VoteCreated(req[r].body.positionId,
                                                    req[r].body.candidateId)),
            ![r].resp = IF req[r].storageHasVoted THEN StorageDuplicate
                        ELSE IF sendThrows THEN SendFailed ELSE VoteCast]
    /\ UNCHANGED <<catalogVars, voteStore, voteIdCounter, settingStore, resets, casts,
                   observerVars>>

\* After `await storage.createVote`: the catch block for the error createVote
\* threw, or broadcastUpdate and the success response. sendThrows: a
\* ws.send of broadcastUpdate throws, which the catch block answers.
CastAfterCreateVote(r, sendThrows) ==
    /\ req[r].pc = "awaitCreateVote"
    /\ IF req[r].storageHasVoted THEN Finish(r, StorageDuplicate)
       ELSE req' = [req EXCEPT
                ![r].pc = "done",
                ![r].broadcasts = Append(@, VoteCreated(req[r].body.positionId,
                                                        req[r].body.candidateId)),
                ![r].resp = IF sendThrows THEN SendFailed ELSE VoteCast]
    /\ UNCHANGED <<catalogVars, voteStore, voteIdCounter, settingStore, resets, casts,
                   observerVars>>

\* --------------------------------------------------------- admin requests
\* PUT /api/admin/settings/:key with body {value}: MemStorage.updateSetting.
UpdateSetting(user, key, value) ==
    /\ IF AdminGate(user) = NoResponse
       THEN settingStore' = [settingStore EXCEPT ![key] = value]
       ELSE UNCHANGED settingStore
    /\ UNCHANGED <<catalogVars, voteStore, voteIdCounter, req, resets, casts,
                   observerVars>>

\* A reset-votes request that clears one vote only: the oldest.
ClearVotesOldestOnly(user) ==
    /\ IF AdminGate(user) = NoResponse
       THEN /\ voteStore' = IF voteStore = <<>> THEN <<>> ELSE Tail(voteStore)
            /\ voteIdCounter' = 1
            /\ resets' = [r \in Requests |-> req[r].pc # "idle"]
       ELSE UNCHANGED <<voteStore, voteIdCounter, resets>>
    /\ UNCHANGED <<catalogVars, settingStore, req, casts>>

\* POST /api/admin/reset-votes behind the /api/admin/* middleware:
\* MemStorage.resetVotes, which clears the Map and restarts the counter
\* before it returns its promise.
ClearVotes(user) ==
    /\ IF AdminGate(user) = NoResponse
       THEN /\ voteStore' = <<>>
            /\ voteIdCounter' = 1
            /\ resets' = [r \in Requests |-> req[r].pc # "idle"]
       ELSE UNCHANGED <<voteStore, voteIdCounter, resets>>
    /\ UNCHANGED <<catalogVars, settingStore, req, casts>>

\* POST /api/admin/reset-votes.
ResetVotes(user) ==
    /\ ClearVotes(user)
    /\ UNCHANGED observerVars

\* The response to a reset-votes request whose resetVotes() returned: the
\* catch block's when a ws.send of broadcastUpdate("votesReset") throws.
VotesReset == Response(200, "Votes reset successfully")

ResetVotesResponse(user, sendThrows) ==
    IF AdminGate(user) # NoResponse THEN AdminGate(user)
    ELSE IF sendThrows THEN SendFailed
    ELSE VotesReset

\* No reset-votes request yet.
NoResetLog ==
    [user |-> NoUser, resp |-> NoResponse, held |-> FALSE, changed |-> FALSE,
     empty |-> FALSE]

\* POST /api/admin/reset-votes, with the request and its response written to
\* the log, and what it did: whether the ledger held votes before it, whether
\* it changed the ledger, whether the ledger is empty after it.
ResetVotesLogged(user, sendThrows) ==
    /\ ClearVotes(user)
    /\ resetLog' = [user |-> user, resp |-> ResetVotesResponse(user, sendThrows),
                    held |-> voteStore # <<>>, changed |-> voteStore' # voteStore,
                    empty |-> voteStore' = <<>>]
    /\ UNCHANGED readerVars

\* ------------------------------------------- GET /api/positions/:id/votes
ResultsHidden == Response(403, "Vote results are not currently visible")
\* res.json(votes)
TallyServed == Response(200, "")

\* The number of votes of the ledger for the candidate on the position.
VotesIn(ledger, positionId, candidateId) ==
    Cardinality({id \in DOMAIN ledger :
                    /\ ledger[id].positionId = positionId
                    /\ ledger[id].candidateId = candidateId})

\* The slot of a tally read that has not arrived. ledger (history): the whole
\* voteStore at the moment getVotesByPosition filtered it into votes.
\* arrivalCount (history): per candidate, the votes the voteStore held for it
\* on the position when the read arrived. castBefore (history): a cast for the
\* position stood answered with success then. resetSince (history): a reset
\* cleared the ledger after the read arrived.
IdleTally ==
    [pc |-> "idle", user |-> NoUser, positionId |-> 0, resultsVisible |-> "",
     ledger |-> <<>>, votes |-> <<>>, result |-> <<>>, resp |-> NoResponse,
     arrivalCount |-> [c \in CandidateIds |-> 0], castBefore |-> FALSE,
     resetSince |-> FALSE]

\* if (resultsVisible !== "true" && (!req.user || req.user.role !== ADMIN)),
\* negated
MayReadResults(resultsVisible, user) ==
    resultsVisible = "true" \/ (user # NoUser /\ userStore[user] = RoleAdmin)

\* The read arrives: the handler up to its first await (the call of
\* storage.getSetting).
TallyArrive(q, user, positionId) ==
    /\ tally[q].pc \in {"idle", "done"}
    /\ reads < MaxReads
    /\ reads' = reads + 1
    /\ tally' = [tally EXCEPT ![q] =
            [IdleTally EXCEPT !.pc = "awaitSetting", !.user = user,
                              !.positionId = positionId,
                              !.resultsVisible = GetSetting("resultsVisible"),
                              !.arrivalCount = [c \in CandidateIds |->
                                    VotesIn(voteStore, positionId, c)],
                              !.castBefore = \E r \in Requests :
                                    /\ req[r].pc = "done" /\ req[r].resp = VoteCast
                                    /\ req[r].body.positionId = positionId]]
    /\ UNCHANGED <<castVars, resetLog, stats, restVars>>

\* A getVotesByPosition that lags one vote behind the Map.
TallyAfterSettingLagging(q) ==
    /\ tally[q].pc = "awaitSetting"
    /\ IF ~MayReadResults(tally[q].resultsVisible, tally[q].user)
       THEN tally' = [tally EXCEPT ![q].pc = "done", ![q].resp = ResultsHidden]
       ELSE tally' = [tally EXCEPT ![q].pc = "awaitVotes",
                                   ![q].ledger = voteStore,
                                   ![q].votes = VotesByPosition(
                                        SubSeq(voteStore, 1, Len(voteStore) - 1),
                                        tally[q].positionId)]
    /\ UNCHANGED <<castVars, resetLog, reads, stats, restVars>>

\* After `await storage.getSetting`: the visibility check and the call of
\* storage.getVotesCountByPosition, which runs up to its own await: the call
\* of getVotesByPosition, which filters the Map.
TallyAfterSetting(q) ==
    /\ tally[q].pc = "awaitSetting"
    /\ IF ~MayReadResults(tally[q].resultsVisible, tally[q].user)
       THEN tally' = [tally EXCEPT ![q].pc = "done", ![q].resp = ResultsHidden]
       ELSE tally' = [tally EXCEPT ![q].pc = "awaitVotes",
                                   ![q].ledger = voteStore,
                                   ![q].votes = GetVotesByPosition(tally[q].positionId)]
    /\ UNCHANGED <<castVars, resetLog, reads, stats, restVars>>

\* A read that takes the votes it counted out of the Map.
TallyAfterVotesConsuming(q) ==
    /\ tally[q].pc = "awaitVotes"
    /\ tally' = [tally EXCEPT ![q].pc = "done",
                               ![q].result = CountVotes(tally[q].votes, <<>>),
                               ![q].resp = TallyServed]
    /\ voteStore' = SelectSeq(voteStore,
                              LAMBDA vote : vote.positionId # tally[q].positionId)
    /\ voteIdCounter' = Len(voteStore') + 1
    /\ UNCHANGED <<catalogVars, settingStore, req, resets, casts, resetLog, reads, stats,
                   restVars>>

\* getVotesCountByPosition after its await, and the handler after its own:
\* the votes are counted per candidate and sent.
TallyAfterVotes(q) ==
    /\ tally[q].pc = "awaitVotes"
    /\ tally' = [tally EXCEPT ![q].pc = "done",
                               ![q].result = CountVotes(tally[q].votes, <<>>),
                               ![q].resp = TallyServed]
    /\ UNCHANGED <<castVars, resetLog, reads, stats, restVars>>

\* POST /api/admin/reset-votes as the reads in flight see it: the reset, and
\* the history of every read that has arrived and is not yet answered.
ResetVotesSeen(user) ==
    /\ ClearVotes(user)
    /\ tally' = [q \in TallyRequests |->
            IF AdminGate(user) = NoResponse /\ tally[q].pc \in {"awaitSetting", "awaitVotes"}
            THEN [tally[q] EXCEPT !.resetSince = TRUE]
            ELSE tally[q]]
    /\ UNCHANGED <<resetLog, reads, stats, restVars>>

\* ------------------------------------ GET /api/stats/votes-by-department
\* res.json(stats)
StatsServed == Response(200, "")

\* The request that has not arrived, with the locals of
\* getVotingStatsByDepartment: departments, students (id -> departmentId) and
\* votes as the three reads returned them.
IdleStats ==
    [pc |-> "idle", departments |-> {}, students |-> <<>>, votes |-> <<>>,
     result |-> <<>>, resp |-> NoResponse]

\* Math.floor(numerator / denominator) of a quotient that is not negative.
PercentageTruncated(votedCount, totalStudents) ==
    (100 * votedCount) \div totalStudents

\* Math.round((votedCount / totalStudents) * 100): the nearest integer, a
\* half rounded up.
Percentage(votedCount, totalStudents) ==
    (2 * 100 * votedCount + totalStudents) \div (2 * totalStudents)

\* students.filter(s => s.departmentId === department.id).map(s => s.id)
DepartmentStudentIds(students, departmentId) ==
    {sid \in DOMAIN students : students[sid] = departmentId}

\* new Set(votes.filter(v => departmentStudentIds.includes(v.studentId))
\*             .map(v => v.studentId)).size
VotedCount(votes, departmentStudentIds) ==
    Cardinality({votes[i].studentId : i \in DOMAIN votes} \cap departmentStudentIds)

\* The loop of getVotingStatsByDepartment over the departments from
\* departmentId on, in the order of the Map (ascending ids): a department
\* without students is skipped (continue), every other one pushes its entry.
RECURSIVE StatsFrom(_, _, _, _)
StatsFrom(departmentId, departments, students, votes) ==
    IF departmentId > MaxDepartmentId THEN <<>>
    ELSE LET departmentStudentIds == DepartmentStudentIds(students, departmentId)
             totalStudents == Cardinality(departmentStudentIds)
             rest == StatsFrom(departmentId + 1, departments, students, votes)
         IN  IF departmentId \notin departments \/ totalStudents = 0 THEN rest
             ELSE <<[departmentId |-> departmentId,
                     percentage |-> Percentage(
                        VotedCount(votes, departmentStudentIds), totalStudents)]>>
                  \o rest

\* The request arrives: the handler calls getVotingStatsByDepartment, which
\* runs up to its first await (the call of getDepartments).
StatsArrive ==
    /\ stats.pc \in {"idle", "done"}
    /\ stats' = [IdleStats EXCEPT !.pc = "awaitDepartments",
                                  !.departments = departmentStore]
    /\ UNCHANGED <<castVars, resetLog, tally, reads, restVars>>

\* After `await this.getDepartments()`: the call of getStudents.
StatsAfterDepartments ==
    /\ stats.pc = "awaitDepartments"
    /\ stats' = [stats EXCEPT !.pc = "awaitStudents", !.students = studentDepartmentId]
    /\ UNCHANGED <<castVars, resetLog, tally, reads, restVars>>

\* After `await this.getStudents()`: the call of getVotes.
StatsAfterStudents ==
    /\ stats.pc = "awaitStudents"
    /\ stats' = [stats EXCEPT !.pc = "awaitVotes", !.votes = voteStore]
    /\ UNCHANGED <<castVars, resetLog, tally, reads, restVars>>

\* After `await this.getVotes()`: the loop over the departments, and the
\* handler after its own await: res.json(stats).
StatsAfterVotes ==
    /\ stats.pc = "awaitVotes"
    /\ stats' = [stats EXCEPT !.pc = "done",
                              !.result = StatsFrom(1, stats.departments,
                                                   stats.students, stats.votes),
                              !.resp = StatsServed]
    /\ UNCHANGED <<castVars, resetLog, tally, reads, restVars>>

\* --------------------------------- GET /api/student/votes/check/:positionId
\* res.json({ hasVoted })
ProbeServed == Response(200, "")

\* History: a cast of the user for the position stands answered with
\* success.
CastStandsAnswered(user, positionId) ==
    \E r \in Requests :
        /\ req[r].pc = "done" /\ req[r].resp = VoteCast
        /\ req[r].user = user /\ req[r].body.positionId = positionId

\* The probe that has not arrived.
IdleProbe == [pc |-> "idle"]

\* The probe arrives: the /api/student/* middleware, then the handler up to
\* its first await (the call of storage.getStudentByStudentId). ledger
\* (history): the voteStore that hasStudentVotedForPosition searched.
\* castBefore (history): a cast of the user for the position stood answered
\* with success when it was searched.
ProbeArrive(user, positionId) ==
    /\ probe.pc \in {"idle", "done"}
    /\ probe' = [pc |-> IF StudentGate(user) THEN "awaitStudent" ELSE "done",
                 user |-> user, positionId |-> positionId,
                 student |-> IF StudentGate(user) THEN GetStudentByStudentId(user)
                             ELSE NoStudent,
                 hasVoted |-> FALSE, ledger |-> <<>>, castBefore |-> FALSE,
                 resp |-> IF StudentGate(user) THEN NoResponse ELSE AuthRequired]
    /\ UNCHANGED <<castVars, resetLog, tally, reads, stats, deleteLog, laterVars>>

\* A probe that asks whether the student has any vote at all.
ProbeAfterStudentAnyPosition ==
    /\ probe.pc = "awaitStudent"
    /\ IF probe.student = NoStudent
       THEN probe' = [probe EXCEPT !.pc = "done", !.resp = ProfileNotFound]
       ELSE probe' = [probe EXCEPT
                !.pc = "awaitHasVoted",
                !.ledger = voteStore,
                !.castBefore = CastStandsAnswered(probe.user, probe.positionId),
                !.hasVoted = \E id \in DOMAIN voteStore :
                                voteStore[id].studentId = probe.student]
    /\ UNCHANGED <<castVars, resetLog, tally, reads, stats, deleteLog, laterVars>>

\* After `await storage.getStudentByStudentId`: the profile check and the
\* call of storage.hasStudentVotedForPosition, which searches the Map.
ProbeAfterStudent ==
    /\ probe.pc = "awaitStudent"
    /\ IF probe.student = NoStudent
       THEN probe' = [probe EXCEPT !.pc = "done", !.resp = ProfileNotFound]
       ELSE probe' = [probe EXCEPT
                !.pc = "awaitHasVoted",
                !.ledger = voteStore,
                !.castBefore = CastStandsAnswered(probe.user, probe.positionId),
                !.hasVoted = HasStudentVotedForPosition(probe.student, probe.positionId)]
    /\ UNCHANGED <<castVars, resetLog, tally, reads, stats, deleteLog, laterVars>>

\* After `await storage.hasStudentVotedForPosition`: res.json({ hasVoted }).
ProbeAfterHasVoted ==
    /\ probe.pc = "awaitHasVoted"
    /\ probe' = [probe EXCEPT !.pc = "done", !.resp = ProbeServed]
    /\ UNCHANGED <<castVars, resetLog, tally, reads, stats, deleteLog, laterVars>>

\* ------------------------------------------------- the WebSocket server
\* A property the parsed message does not have.
Undefined == "undefined"

\* The roles a client announces.
ClientRoles == {"admin", "student"}

\* What the registration and catalog requests are to the socket server, and
\* the socket server to them.
wsFrame == <<castVars, resetLog, tally, reads, stats, probe, deleteLog,
             electionVars>>

\* No broadcast yet.
NothingSent == [role |-> Undefined, to |-> {}, seq |-> 0]

\* use-websocket.tsx sendMessage(type, data): JSON.stringify({ type, data }),
\* as JSON.parse gives it back; the message has no property `role` itself.
SendMessage(type, data) == [type |-> type, role |-> Undefined, data |-> data]

\* use-websocket.tsx identify(role): sendMessage("identify", { role })
IdentifyMessage(role) == SendMessage("identify", [role |-> role])

\* The message of a client that puts the role beside the type:
\* { type: "identify", role }.
FlatIdentifyMessage(role) ==
    [type |-> "identify", role |-> role, data |-> [role |-> Undefined]]

\* data.role || "unknown"
RoleOrUnknown(role) == IF role = Undefined THEN "unknown" ELSE role

\* wss.on("connection"): clients.set(ws, { type: "unknown" })
OnConnection(ws) ==
    /\ ws \notin DOMAIN clients
    /\ clients' = [w \in DOMAIN clients \cup {ws} |->
                        IF w = ws THEN [type |-> "unknown"] ELSE clients[w]]
    /\ sockets' = [w \in DOMAIN sockets \cup {ws} |->
                        IF w = ws
                        THEN [readyState |-> "OPEN", inbound |-> <<>>,
                              announced |-> Undefined]
                        ELSE sockets[w]]
    /\ UNCHANGED <<sent, regVars, wsFrame>>

\* A client sends the message over its open connection.
ClientSend(ws, message) ==
    /\ ws \in DOMAIN sockets
    /\ sockets[ws].readyState = "OPEN"
    /\ Len(sockets[ws].inbound) < MaxInbound
    /\ sockets' = [sockets EXCEPT ![ws].inbound = Append(@, message)]
    /\ UNCHANGED <<clients, sent, regVars, wsFrame>>

\* The client hook's identify(role) on a connected socket.
Identify(ws, role) ==
    /\ role \in ClientRoles \cup {"unknown"}
    /\ ClientSend(ws, IdentifyMessage(role))

\* Another client's identify message, the role at the top level.
IdentifyFlat(ws, role) ==
    /\ role \in ClientRoles
    /\ ClientSend(ws, FlatIdentifyMessage(role))

\* ws.on("message"): the server parses the next message of the connection
\* and, if its type is "identify", registers the client with
\* data.role || "unknown", data being the parsed message.
OnMessage(ws) ==
    /\ ws \in DOMAIN sockets
    /\ sockets[ws].inbound # <<>>
    /\ LET data == Head(sockets[ws].inbound)
       IN  /\ clients' = IF data.type = "identify"
                         THEN [clients EXCEPT ![ws] = [type |-> RoleOrUnknown(data.role)]]
                         ELSE clients
           /\ sockets' = [sockets EXCEPT
                    ![ws].inbound = Tail(@),
                    ![ws].announced = IF data.type = "identify"
                                         /\ data.data.role # Undefined
                                      THEN data.data.role ELSE @]
    /\ UNCHANGED <<sent, regVars, wsFrame>>

\* The connection starts to close: readyState leaves OPEN before the close
\* event reaches the server's handler.
StartClose(ws) ==
    /\ ws \in DOMAIN sockets
    /\ sockets[ws].readyState = "OPEN"
    /\ sockets' = [sockets EXCEPT ![ws].readyState = "CLOSING"]
    /\ UNCHANGED <<clients, sent, regVars, wsFrame>>

\* ws.on("close"): clients.delete(ws)
OnClose(ws) ==
    /\ ws \in DOMAIN sockets
    /\ sockets[ws].readyState = "CLOSING"
    /\ clients' = [w \in DOMAIN clients \ {ws} |-> clients[w]]
    /\ sockets' = [w \in DOMAIN sockets \ {ws} |-> sockets[w]]
    /\ UNCHANGED <<sent, regVars, wsFrame>>

\* The connections broadcastUpdate(eventType, data, role) sends to: the open
\* ones, of the given type if a role is given.
Receivers(role) ==
    {ws \in DOMAIN clients :
        /\ sockets[ws].readyState = "OPEN"
        /\ (role = Undefined \/ clients[ws].type = role)}

\* A route handler's call of broadcastUpdate(eventType, data, role).
BroadcastUpdate(role) ==
    /\ sent' = [role |-> role, to |-> Receivers(role), seq |-> 1 - sent.seq]
    /\ UNCHANGED <<clients, sockets, regVars, wsFrame>>

\* --------------------------------------------------------- the elections
\* The position ids a request can name: those of the catalog and the next.
FormPositionIds == 1..(MaxPositionId + 1)

\* formData.positions: z.array(z.number()).min(1)
FormPositions ==
    UNION {[1..n -> FormPositionIds] : n \in 1..MaxFormPositions}

\* A partial update without the key `positions`.
NoPositions == <<0>>

\* positions of insertElectionSchema.partial(): any JSON array, or absent.
PartialPositions == FormPositions \cup {<<>>, NoPositions}

\* What the election requests leave alone.
electionFrame == <<castVars, resetLog, tally, reads, stats, probe, deleteLog,
                   regVars, wsVars>>

\* Array.includes
Includes(array, x) == \E i \in DOMAIN array : array[i] = x

\* The stores as one election request has them in hand.
Stores == [elections |-> electionStore, links |-> electionPositionStore,
           threw |-> FALSE]

\* MemStorage.addPositionToElection({electionId, positionId}) on the stores:
\* throws if the pair is stored; else stores it and pushes the id to the
\* election's positions unless the array includes it.
AddPositionToElection(st, electionId, positionId) ==
    LET pair == [electionId |-> electionId, positionId |-> positionId]
    IN  IF st.threw THEN st
        ELSE IF pair \in st.links THEN [st EXCEPT !.threw = TRUE]
        ELSE [st EXCEPT
                !.links = @ \cup {pair},
                !.elections =
                    IF electionId \in DOMAIN @
                       /\ ~Includes(@[electionId].positions, positionId)
                    THEN [@ EXCEPT ![electionId].positions = Append(@, positionId)]
                    ELSE @]

\* MemStorage.removePositionFromElection(electionId, positionId) on the
\* stores: false if the pair is not stored; else deletes it and filters the
\* id out of the election's positions.
RemovePositionFromElection(st, electionId, positionId) ==
    LET pair == [electionId |-> electionId, positionId |-> positionId]
    IN  IF st.threw \/ pair \notin st.links THEN st
        ELSE [st EXCEPT
                !.links = @ \ {pair},
                !.elections =
                    IF electionId \in DOMAIN @
                    THEN [@ EXCEPT ![electionId].positions =
                            SelectSeq(@, LAMBDA id : id # positionId)]
                    ELSE @]

\* MemStorage.getElectionPositions(electionId) mapped to the ids: the stored
\* positions that have an entry for the election, in the order of the Map.
RECURSIVE CurrentPositionIds(_, _, _)
CurrentPositionIds(links, electionId, from) ==
    IF from > MaxPositionId + 1 THEN <<>>
    ELSE (IF PositionExists(from)
             /\ [electionId |-> electionId, positionId |-> from] \in links
          THEN <<from>> ELSE <<>>)
         \o CurrentPositionIds(links, electionId, from + 1)

\* for (const positionId of positions) await storage.addPositionToElection(...),
\* skipping the ids of `skip`; a throw ends the loop.
RECURSIVE AddEach(_, _, _, _)
AddEach(st, electionId, positions, skip) ==
    IF positions = <<>> THEN st
    ELSE AddEach(IF Includes(skip, Head(positions)) THEN st
                 ELSE AddPositionToElection(st, electionId, Head(positions)),
                 electionId, Tail(positions), skip)

\* for (const positionId of currentPositionIds) if the form does not include
\* it, await storage.removePositionFromElection(id, positionId)
RECURSIVE RemoveEach(_, _, _, _)
RemoveEach(st, electionId, current, positions) ==
    IF current = <<>> THEN st
    ELSE RemoveEach(IF Includes(positions, Head(current)) THEN st
                    ELSE RemovePositionFromElection(st, electionId, Head(current)),
                    electionId, Tail(current), positions)

\* MemStorage.updateElection(id, { positions }) on the stores.
UpdateElection(st, id, positions) ==
    IF st.threw \/ id \notin DOMAIN st.elections THEN st
    ELSE [st EXCEPT !.elections[id].positions = positions]

\* The request leaves the stores as st has them; a throw answers 500 and
\* undoes nothing.
Commit(st) ==
    /\ electionStore' = st.elections
    /\ electionPositionStore' = st.links
    /\ UNCHANGED electionFrame

\* POST /api/admin/elections of the admin with a valid form:
\* createElection stores the election with the form's positions and the
\* next id, then the loop adds the entries.
CreateElectionRequest(positions) ==
    /\ Len(electionStore) < MaxElections
    /\ LET id == Len(electionStore) + 1
           created == [Stores EXCEPT
                          !.elections = Append(@, [positions |-> positions])]
       IN  Commit(AddEach(created, id, positions, <<>>))

\* PUT /api/admin/elections/:id of the admin with the four date fields: the
\* form update.
UpdateElectionForm(id, positions) ==
    /\ id \in DOMAIN electionStore
    /\ LET current == CurrentPositionIds(electionPositionStore, id, 1)
           added == AddEach(Stores, id, positions, current)
           removed == RemoveEach(added, id, current, positions)
       IN  Commit(UpdateElection(removed, id, positions))

\* PUT /api/admin/elections/:id of the admin without them: the partial
\* update, with or without the key `positions`.
UpdateElectionPartial(id, positions) ==
    /\ id \in DOMAIN electionStore
    /\ Commit(IF positions = NoPositions THEN Stores
              ELSE UpdateElection(Stores, id, positions))

\* POST /api/admin/elections/:id/positions of the admin.
AddPositionRequest(electionId, positionId) ==
    /\ positionId > 0
    /\ Commit(AddPositionToElection(Stores, electionId, positionId))

\* DELETE /api/admin/elections/:electionId/positions/:positionId of the admin.
RemovePositionRequest(electionId, positionId) ==
    /\ positionId \in FormPositionIds
    /\ Commit(RemovePositionFromElection(Stores, electionId, positionId))

\* ------------------------------------------- POST /api/register/student
NotVerified == Response(400, "Student ID not found in verified list")
AlreadyRegistered == Response(400, "Student ID is already registered")
UsernameTaken == Response(400, "Student ID is already registered as a username")
\* res.status(201).json(userWithoutPassword)
Registered == Response(201, "")

\* The registration request that has not arrived.
IdleReg == [pc |-> "idle"]

\* What the registration requests leave alone.
regFrame == <<departmentStore, userStore, positionStore, positionIdCounter,
              candidateStore, candidateIdCounter, voteStore, voteIdCounter,
              settingStore, req, resets, casts, resetLog, tally, reads, stats,
              probe, deleteLog, wsVars, electionVars>>

\* MemStorage.getUserByUsername(username) !== undefined
UserExists(username) ==
    \/ username \in DOMAIN userStore
    \/ \E n \in DOMAIN userAccounts : userAccounts[n] = username

\* The request arrives: the handler up to its first await, the call of
\* storage.getVerifiedStudentId, which returns the entry of the Map itself
\* (verified: there is one).
RegArrive(g, studentId) ==
    /\ reg[g].pc \in {"idle", "done"}
    /\ reg' = [reg EXCEPT ![g] =
            [pc |-> "awaitVerified", studentId |-> studentId,
             verified |-> studentId \in DOMAIN verifiedStudentIdStore,
             existingUser |-> FALSE, resp |-> NoResponse]]
    /\ UNCHANGED <<studentStore, studentDepartmentId, verifiedStudentIdStore,
                   userAccounts, regFrame>>

\* After `await storage.getVerifiedStudentId`: the two checks of the entry,
\* whose isRegistered is read from the object in the Map as it is now, and
\* the call of storage.getUserByUsername.
RegAfterVerified(g) ==
    /\ reg[g].pc = "awaitVerified"
    /\ IF ~reg[g].verified
       THEN reg' = [reg EXCEPT ![g].pc = "done", ![g].resp = NotVerified]
       ELSE IF verifiedStudentIdStore[reg[g].studentId]
       THEN reg' = [reg EXCEPT ![g].pc = "done", ![g].resp = AlreadyRegistered]
       ELSE reg' = [reg EXCEPT ![g].pc = "awaitUser",
                               ![g].existingUser = UserExists(reg[g].studentId)]
    /\ UNCHANGED <<studentStore, studentDepartmentId, verifiedStudentIdStore,
                   userAccounts, regFrame>>

\* After `await storage.getUserByUsername`: the check of the username and the
\* call of hashPassword.
RegAfterUser(g) ==
    /\ reg[g].pc = "awaitUser"
    /\ IF reg[g].existingUser
       THEN reg' = [reg EXCEPT ![g].pc = "done", ![g].resp = UsernameTaken]
       ELSE reg' = [reg EXCEPT ![g].pc = "awaitHash"]
    /\ UNCHANGED <<studentStore, studentDepartmentId, verifiedStudentIdStore,
                   userAccounts, regFrame>>

\* After `await hashPassword`: the call of storage.createUser, which stores
\* the account before its promise resolves.
RegAfterHash(g) ==
    /\ reg[g].pc = "awaitHash"
    /\ userAccounts' = Append(userAccounts, reg[g].studentId)
    /\ reg' = [reg EXCEPT ![g].pc = "awaitCreateUser"]
    /\ UNCHANGED <<studentStore, studentDepartmentId, verifiedStudentIdStore, regFrame>>

\* After `await storage.createUser`: the call of storage.createStudent, which
\* stores the profile and runs markVerifiedStudentIdAsRegistered up to its
\* return before its own await.
RegAfterCreateUser(g) ==
    /\ reg[g].pc = "awaitCreateUser"
    /\ studentStore' = Append(studentStore, reg[g].studentId)
    /\ studentDepartmentId' = Append(studentDepartmentId, 1)
    /\ verifiedStudentIdStore' =
            [verifiedStudentIdStore EXCEPT ![reg[g].studentId] = TRUE]
    /\ reg' = [reg EXCEPT ![g].pc = "awaitCreateStudent"]
    /\ UNCHANGED <<userAccounts, regFrame>>

\* POST /api/admin/verified-student-ids/bulk with the one id:
\* bulkCreateVerifiedStudentIds adds the id, not registered, unless the Map
\* has it.
BulkCreateVerifiedStudentIds(id) ==
    /\ id \notin DOMAIN verifiedStudentIdStore
    /\ verifiedStudentIdStore' =
            [other \in DOMAIN verifiedStudentIdStore \cup {id} |->
                IF other = id THEN FALSE ELSE verifiedStudentIdStore[other]]
    /\ UNCHANGED <<studentStore, studentDepartmentId, userAccounts, reg, regFrame>>

\* After `await storage.createStudent`: req.login and the 201.
RegAfterCreateStudent(g) ==
    /\ reg[g].pc = "awaitCreateStudent"
    /\ reg' = [reg EXCEPT ![g].pc = "done", ![g].resp = Registered]
    /\ UNCHANGED <<studentStore, studentDepartmentId, verifiedStudentIdStore,
                   userAccounts, regFrame>>

\* The variables the catalog requests leave alone.
ledgerVars == <<departmentStore, studentDepartmentId,
                userStore, studentStore, voteStore, voteIdCounter,
                settingStore, req, resets, casts, observerVars>>

\* POST /api/admin/candidates: MemStorage.createCandidate, which throws when
\* the student already is a candidate for the position.
CreateCandidate(user, studentId, positionId) ==
    /\ candidateIdCounter <= MaxCandidateId
    /\ IF /\ AdminGate(user) = NoResponse
          /\ ~\E c \in DOMAIN candidateStore :
                /\ candidateStore[c].studentId = studentId
                /\ candidateStore[c].positionId = positionId
       THEN /\ candidateStore' = candidateStore @@
                    (candidateIdCounter :>
                        [studentId |-> studentId, positionId |-> positionId])
            /\ candidateIdCounter' = candidateIdCounter + 1
       ELSE UNCHANGED <<candidateStore, candidateIdCounter>>
    /\ UNCHANGED <<positionStore, positionIdCounter, ledgerVars>>

\* PUT /api/admin/candidates/:id with a body that names a positionId:
\* MemStorage.updateCandidate merges the body over the stored candidate.
UpdateCandidate(user, id, positionId) ==
    /\ IF AdminGate(user) = NoResponse /\ id \in DOMAIN candidateStore
       THEN candidateStore' = [candidateStore EXCEPT ![id].positionId = positionId]
       ELSE UNCHANGED candidateStore
    /\ UNCHANGED <<positionStore, positionIdCounter, candidateIdCounter, ledgerVars>>

\* A deleteCandidate without the check of the votes.
RemoveCandidateUnchecked(user, id) ==
    /\ IF AdminGate(user) = NoResponse
       THEN candidateStore' = [c \in DOMAIN candidateStore \ {id} |-> candidateStore[c]]
       ELSE UNCHANGED candidateStore
    /\ UNCHANGED <<departmentStore, studentDepartmentId, userStore, studentStore,
                   positionStore, positionIdCounter, candidateIdCounter,
                   voteStore, voteIdCounter, settingStore, req, resets, casts>>

\* MemStorage.deleteCandidate behind the /api/admin/* middleware: it refuses
\* a candidate that votes are associated with, and has no await between its
\* check and its delete.
RemoveCandidate(user, id) ==
    /\ IF /\ AdminGate(user) = NoResponse
          /\ ~\E v \in DOMAIN voteStore : voteStore[v].candidateId = id
       THEN candidateStore' = [c \in DOMAIN candidateStore \ {id} |-> candidateStore[c]]
       ELSE UNCHANGED candidateStore
    /\ UNCHANGED <<departmentStore, studentDepartmentId, userStore, studentStore,
                   positionStore, positionIdCounter, candidateIdCounter,
                   voteStore, voteIdCounter, settingStore, req, resets, casts>>

\* DELETE /api/admin/candidates/:id
DeleteCandidate(user, id) == RemoveCandidate(user, id) /\ UNCHANGED observerVars

\* res.status(400) of the route when deleteCandidate returned false
CannotDelete == Response(400, "Cannot delete candidate with votes")
\* res.status(204).end()
CandidateDeleted == Response(204, "")

\* The delete-candidate request that has not been sent.
NoDeleteLog == [resp |-> NoResponse]

\* DELETE /api/admin/candidates/:id with its response, every ws.send of its
\* broadcastUpdate returning, and the history of what it found and did.
\* referenced: a stored vote named the candidate. removed: the candidate was
\* in the store before and is not after. changed: candidates or votes differ.
DeleteCandidateLogged(user, id) ==
    /\ RemoveCandidate(user, id)
    /\ deleteLog' =
            [user |-> user, id |-> id,
             resp |-> IF AdminGate(user) # NoResponse THEN AdminGate(user)
                      ELSE IF id \in DOMAIN candidateStore /\ id \notin DOMAIN candidateStore'
                      THEN CandidateDeleted ELSE CannotDelete,
             referenced |-> \E v \in DOMAIN voteStore : voteStore[v].candidateId = id,
             removed |-> id \in DOMAIN candidateStore /\ id \notin DOMAIN candidateStore',
             changed |-> candidateStore' # candidateStore \/ voteStore' # voteStore]
    /\ UNCHANGED <<resetLog, tally, reads, stats, probe, laterVars>>

\* The shape of the store and of the requests in flight.
TypeOK ==
    /\ departmentStore \subseteq DepartmentIds
    /\ studentDepartmentId \in [DOMAIN studentStore -> DepartmentIds]
    /\ userStore \in [Usernames -> {RoleAdmin, RoleStudent}]
    /\ Len(studentStore) <= MaxStudents
    /\ \A sid \in DOMAIN studentStore :
            \E n \in DOMAIN StudentNumbers : studentStore[sid] = StudentNumbers[n]
    /\ \A id \in DOMAIN verifiedStudentIdStore : verifiedStudentIdStore[id] \in BOOLEAN
    /\ \A n \in DOMAIN userAccounts : userAccounts[n] \in DOMAIN verifiedStudentIdStore
    /\ \A g \in RegRequests :
            /\ reg[g].pc \in {"idle", "awaitVerified", "awaitUser", "awaitHash",
                               "awaitCreateUser", "awaitCreateStudent", "done"}
            /\ reg[g].pc # "idle" =>
                    reg[g].resp \in {NoResponse, NotVerified, AlreadyRegistered,
                                     UsernameTaken, Registered}
    /\ DOMAIN clients \subseteq WebSockets
    /\ DOMAIN sockets = DOMAIN clients
    /\ \A ws \in DOMAIN clients :
            /\ clients[ws].type \in ClientRoles \cup {"unknown"}
            /\ sockets[ws].readyState \in {"OPEN", "CLOSING"}
            /\ Len(sockets[ws].inbound) <= MaxInbound
            /\ sockets[ws].announced \in ClientRoles \cup {Undefined}
    /\ sent.to \subseteq WebSockets
    /\ Len(electionStore) <= MaxElections
    /\ \A id \in DOMAIN electionStore :
            /\ electionStore[id].positions \in Seq(FormPositionIds)
            /\ Len(electionStore[id].positions) <= MaxFormPositions + MaxPositionId + 1
    /\ electionPositionStore \subseteq
            [electionId : 1..MaxElections, positionId : FormPositionIds]
    /\ positionStore \subseteq PositionIds
    /\ positionIdCounter \in 1..(MaxPositionId + 1)
    /\ DOMAIN candidateStore \subseteq CandidateIds
    /\ \A c \in DOMAIN candidateStore :
            /\ candidateStore[c].studentId \in DOMAIN studentStore
            /\ candidateStore[c].positionId \in PositionIds
    /\ candidateIdCounter \in 1..(MaxCandidateId + 1)
    /\ DOMAIN voteStore = 1..(voteIdCounter - 1)
    /\ \A v \in DOMAIN voteStore :
            /\ voteStore[v].studentId \in DOMAIN studentStore
            /\ voteStore[v].positionId \in PositionIds
            /\ voteStore[v].candidateId \in CandidateIds
    /\ settingStore \in [SettingKeys -> SettingValues]
    /\ \A r \in Requests :
            /\ req[r].pc \in {"idle", "awaitSetting", "awaitStudent", "awaitHasVoted",
                              "inCreateVote", "awaitCreateVote", "done"}
            /\ req[r].user \in Requesters
            /\ req[r].body \in Bodies \cup BodiesNamingStudent
            /\ req[r].vote \in 0..MaxCasts
            /\ Len(req[r].broadcasts) <= 1
            /\ \A i \in DOMAIN req[r].broadcasts : req[r].broadcasts[i] \in
                    {VoteCreated(p, c) : p \in PositionIds, c \in CandidateIds}
    /\ resets \in [Requests -> BOOLEAN]
    /\ casts \in 0..MaxCasts
    /\ resetLog.user \in Requesters
    /\ resetLog.resp \in {NoResponse, AuthRequired, AdminRequired, SendFailed, VotesReset}
    /\ resetLog.held \in BOOLEAN /\ resetLog.changed \in BOOLEAN
    /\ resetLog.empty \in BOOLEAN
    /\ \A q \in TallyRequests :
            /\ tally[q].pc \in {"idle", "awaitSetting", "awaitVotes", "done"}
            /\ tally[q].user \in Requesters
            /\ tally[q].positionId \in PositionIds \cup {0}
            /\ tally[q].resp \in {NoResponse, ResultsHidden, TallyServed}
            /\ tally[q].arrivalCount \in [CandidateIds -> 0..MaxCasts]
            /\ tally[q].castBefore \in BOOLEAN
            /\ tally[q].resetSince \in BOOLEAN
            /\ \A i \in DOMAIN tally[q].result :
                    /\ tally[q].result[i].candidateId \in CandidateIds
                    /\ tally[q].result[i].count \in 1..MaxCasts
    /\ reads \in 0..MaxReads
    /\ stats.pc \in {"idle", "awaitDepartments", "awaitStudents", "awaitVotes", "done"}
    /\ deleteLog.resp \in {NoResponse, AuthRequired, AdminRequired, CannotDelete,
                            CandidateDeleted}
    /\ probe.pc \in {"idle", "awaitStudent", "awaitHasVoted", "done"}
    /\ probe.pc # "idle" =>
            /\ probe.user \in Requesters
            /\ probe.positionId \in PositionIds
            /\ probe.hasVoted \in BOOLEAN
            /\ probe.castBefore \in BOOLEAN
            /\ probe.resp \in {NoResponse, AuthRequired, ProfileNotFound, ProbeServed}
    /\ \A i \in DOMAIN stats.result :
            /\ stats.result[i].departmentId \in DepartmentIds
            /\ stats.result[i].percentage \in 0..100

\* ----------------------------------------------------------------- Init
\* The store after construction (settings, the admin account), after the
\* students registered and the administrator entered the catalog.
Init ==
    /\ userStore = [u \in Usernames |-> IF u = "admin" THEN RoleAdmin ELSE RoleStudent]
    /\ studentStore = <<"S1001">>
    /\ positionStore = {1}
    /\ positionIdCounter = 2
    /\ candidateStore = (1 :> [studentId |-> 1, positionId |-> 1])
    /\ candidateIdCounter = 2
    /\ voteStore = <<>>
    /\ voteIdCounter = 1
    /\ settingStore = [k \in SettingKeys |-> "true"]
    /\ req = [r \in Requests |-> IdleRequest]
    /\ resets = [r \in Requests |-> FALSE]
    /\ casts = 0
    /\ resetLog = NoResetLog
    /\ tally = [q \in TallyRequests |-> IdleTally]
    /\ reads = 0
    /\ departmentStore = {1}
    /\ studentDepartmentId = <<1>>
    /\ stats = IdleStats
    /\ probe = IdleProbe
    /\ deleteLog = NoDeleteLog
    /\ verifiedStudentIdStore = [id \in {studentStore[sid] : sid \in DOMAIN studentStore}
                                    |-> TRUE]
    /\ userAccounts = <<>>
    /\ reg = [g \in RegRequests |-> IdleReg]
    /\ clients = <<>>
    /\ sockets = <<>>
    /\ sent = NothingSent
    /\ electionStore = <<>>
    /\ electionPositionStore = {}

\* A step of a cast request, every ws.send of its broadcastUpdate returning.
CastStep(r) ==
    \/ \E user \in Requesters, body \in Bodies : CastArrive(r, user, body)
    \/ CastAfterSetting(r)
    \/ CastAfterStudent(r)
    \/ CastAfterHasVoted(r)
    \/ CreateVoteResume(r)
    \/ CastAfterCreateVote(r, FALSE)

\* The cast requests of anyone in any interleaving, and the settings and
\* reset-votes requests of the administrator. The same requests of anyone
\* else are refused by AdminGate and change no variable: they are stuttering
\* steps, which every specification admits; SpecSequential takes them.
Next ==
    \/ \E r \in Requests : CastStep(r)
    \/ \E value \in SettingValues : UpdateSetting("admin", "votingEnabled", value)
    \/ ResetVotes("admin")

Spec == Init /\ [][Next]_vars

\* The candidate requests of the administrator.
CatalogStep ==
    \/ \E user \in Requesters, studentId \in DOMAIN studentStore, positionId \in PositionIds :
            CreateCandidate(user, studentId, positionId)
    \/ \E user \in Requesters, id \in CandidateIds, positionId \in PositionIds :
            UpdateCandidate(user, id, positionId)
    \/ \E user \in Requesters, id \in CandidateIds : DeleteCandidate(user, id)

\* One cast request at a time, with the catalog changing under it.
NextCatalog ==
    \/ CastStep("r1")
    \/ CatalogStep
    \/ \E user \in Requesters, value \in SettingValues :
            UpdateSetting(user, "votingEnabled", value)
    \/ \E user \in Requesters : ResetVotes(user)

SpecCatalog == Init /\ [][NextCatalog]_vars

\* No cast request is between its arrival and its response.
NoCastInFlight == \A r \in Requests : req[r].pc \in {"idle", "done"}

\* A cast request that arrives when no other is in flight.
CastArriveAlone(r, user, body) ==
    /\ NoCastInFlight
    /\ CastArrive(r, user, body)

\* A reset-votes request that arrives when no cast is in flight.
ResetVotesAlone(user, sendThrows) ==
    /\ NoCastInFlight
    /\ ResetVotesLogged(user, sendThrows)

\* The requests one at a time: a cast of the voter or a reset-votes request
\* of anyone arrives when no cast is in flight; every reset-votes request is
\* logged.
NextSequential ==
    \/ \E r \in Requests, body \in WellFormedBodies :
            CastArriveAlone(r, "S1001", body)
    \/ \E r \in Requests : CastAfterSetting(r)
    \/ \E r \in Requests : CastAfterStudent(r)
    \/ \E r \in Requests : CastAfterHasVoted(r)
    \/ \E r \in Requests : CreateVoteResume(r)
    \/ \E r \in Requests, sendThrows \in BOOLEAN : CastAfterCreateVote(r, sendThrows)
    \/ \E user \in Requesters, value \in SettingValues :
            UpdateSetting(user, "votingEnabled", value)
    \/ \E user \in Requesters, sendThrows \in BOOLEAN :
            ResetVotesAlone(user, sendThrows)

SpecSequential == Init /\ [][NextSequential]_vars

\* The casts of the voter in any interleaving, with the sends to the
\* observers returning or throwing, and the settings and reset-votes
\* requests of the administrator.
NextNotify ==
    \/ \E r \in Requests, body \in WellFormedBodies : CastArrive(r, "S1001", body)
    \/ \E r \in Requests : CastAfterSetting(r)
    \/ \E r \in Requests : CastAfterStudent(r)
    \/ \E r \in Requests : CastAfterHasVoted(r)
    \/ \E r \in Requests : CreateVoteResume(r)
    \/ \E r \in Requests, sendThrows \in BOOLEAN : CastAfterCreateVote(r, sendThrows)
    \/ \E value \in SettingValues : UpdateSetting("admin", "votingEnabled", value)
    \/ ResetVotes("admin")

SpecNotify == Init /\ [][NextNotify]_vars

\* The casts of anyone, one at a time, with bodies that carry a studentId,
\* and the reset-votes requests of the administrator.
NextForge ==
    \/ \E user \in Requesters, body \in BodiesNamingStudent : CastArrive("r1", user, body)
    \/ CastAfterSetting("r1")
    \/ CastAfterStudent("r1")
    \/ CastAfterHasVoted("r1")
    \/ CreateVoteResume("r1")
    \/ CastAfterCreateVote("r1", FALSE)
    \/ ResetVotes("admin")

SpecForge == Init /\ [][NextForge]_vars

\* The probes of anyone, one at a time, in any interleaving with the casts
\* of the voter and the reset-votes requests of the administrator.
NextProbe ==
    \/ \E body \in WellFormedBodies : CastArrive("r1", "S1001", body)
    \/ CastAfterSetting("r1")
    \/ CastAfterStudent("r1")
    \/ CastAfterHasVoted("r1")
    \/ CreateVoteResume("r1")
    \/ CastAfterCreateVote("r1", FALSE)
    \/ ResetVotes("admin")
    \/ \E user \in Requesters, positionId \in PositionIds : ProbeArrive(user, positionId)
    \/ ProbeAfterStudent
    \/ ProbeAfterHasVoted

SpecProbe == Init /\ [][NextProbe]_vars

\* The delete-candidate requests of anyone, in any interleaving with the
\* casts of the voter on the position of Init for any candidate id, the
\* administrator's entering of candidates and the administrator's
\* reset-votes requests.
NextDelete ==
    \/ \E body \in {b \in WellFormedBodies : b.positionId = 1} :
            CastArrive("r1", "S1001", body)
    \/ CastAfterSetting("r1")
    \/ CastAfterStudent("r1")
    \/ CastAfterHasVoted("r1")
    \/ CreateVoteResume("r1")
    \/ CastAfterCreateVote("r1", FALSE)
    \/ \E positionId \in PositionIds : CreateCandidate("admin", 1, positionId)
    \/ \E user \in Requesters, id \in CandidateIds : DeleteCandidateLogged(user, id)
    \/ ResetVotes("admin")

SpecDelete == Init /\ [][NextDelete]_vars

\* The student ids a registration form can carry: a registered one, one the
\* administrator uploads, and one nobody verified.
RegistrationIds == {"S1001", "S1002", "S1003"}

\* The registration requests of two clients, interleaved at their awaits, and
\* the administrator's upload of a verified id.
NextRegister ==
    \/ BulkCreateVerifiedStudentIds("S1002")
    \/ \E g \in RegRequests, studentId \in RegistrationIds : RegArrive(g, studentId)
    \/ \E g \in RegRequests : RegAfterVerified(g)
    \/ \E g \in RegRequests : RegAfterUser(g)
    \/ \E g \in RegRequests : RegAfterHash(g)
    \/ \E g \in RegRequests : RegAfterCreateUser(g)
    \/ \E g \in RegRequests : RegAfterCreateStudent(g)

SpecRegister == Init /\ [][NextRegister]_vars

\* The socket server with two connections: clients that announce a role with
\* the hook or with a flat message, and handlers that broadcast to the
\* administrators or to everyone.
NextSocket ==
    \/ \E ws \in WebSockets : OnConnection(ws)
    \/ \E ws \in WebSockets, role \in ClientRoles : Identify(ws, role)
    \/ \E ws \in WebSockets : IdentifyFlat(ws, "admin")
    \/ \E ws \in WebSockets : OnMessage(ws)
    \/ \E ws \in WebSockets : StartClose(ws)
    \/ \E ws \in WebSockets : OnClose(ws)
    \/ \E role \in {RoleAdmin, Undefined} : BroadcastUpdate(role)

SpecSocket == Init /\ [][NextSocket]_vars

\* The administrator's election requests, one after the other.
NextElection ==
    \/ \E positions \in FormPositions : CreateElectionRequest(positions)
    \/ \E id \in 1..MaxElections, positions \in FormPositions :
            UpdateElectionForm(id, positions)
    \/ \E id \in 1..MaxElections, positions \in PartialPositions :
            UpdateElectionPartial(id, positions)
    \/ \E id \in 1..MaxElections, positionId \in FormPositionIds :
            AddPositionRequest(id, positionId)
    \/ \E id \in 1..MaxElections, positionId \in FormPositionIds :
            RemovePositionRequest(id, positionId)

SpecElection == Init /\ [][NextElection]_vars

\* The bodies that name the candidate.
BodiesFor(candidateId) == {body \in WellFormedBodies : body.candidateId = candidateId}

\* The tally reads of anyone, one at a time, in any interleaving with the
\* casts of the voter for the candidate of Init, the admin's switching of
\* resultsVisible and the admin's reset-votes requests.
NextRead ==
    \/ \E body \in BodiesFor(1) : CastArrive("r1", "S1001", body)
    \/ CastAfterSetting("r1")
    \/ CastAfterStudent("r1")
    \/ CastAfterHasVoted("r1")
    \/ CreateVoteResume("r1")
    \/ CastAfterCreateVote("r1", FALSE)
    \/ \E value \in SettingValues : UpdateSetting("admin", "resultsVisible", value)
    \/ ResetVotesSeen("admin")
    \/ \E user \in Requesters, positionId \in PositionIds :
            TallyArrive("q1", user, positionId)
    \/ TallyAfterSetting("q1")
    \/ TallyAfterVotes("q1")

SpecRead == Init /\ [][NextRead]_vars

\* The votes a cast request can store.
Votes ==
    [studentId : DOMAIN studentStore, positionId : PositionIds, candidateId : CandidateIds]

\* The ledgers of n votes.
Ledgers(n) == [1..n -> Votes]

\* A ledger the cast requests of Spec can leave behind: up to MaxCasts votes,
\* for any position and any candidate a body can name, two of them for one
\* pair when the requests ran concurrently.
InitTally ==
    /\ userStore = [u \in Usernames |-> IF u = "admin" THEN RoleAdmin ELSE RoleStudent]
    /\ studentStore = <<"S1001">>
    /\ positionStore = {1}
    /\ positionIdCounter = 2
    /\ candidateStore = (1 :> [studentId |-> 1, positionId |-> 1])
    /\ candidateIdCounter = 2
    /\ \E n \in 0..MaxCasts : voteStore \in Ledgers(n)
    /\ voteIdCounter = Len(voteStore) + 1
    /\ settingStore = [k \in SettingKeys |-> "true"]
    /\ req = [r \in Requests |-> IdleRequest]
    /\ resets = [r \in Requests |-> FALSE]
    /\ casts = 0
    /\ resetLog = NoResetLog
    /\ tally = [q \in TallyRequests |-> IdleTally]
    /\ reads = 0
    /\ departmentStore = {1}
    /\ studentDepartmentId = <<1>>
    /\ stats = IdleStats
    /\ probe = IdleProbe
    /\ deleteLog = NoDeleteLog
    /\ verifiedStudentIdStore = [id \in {studentStore[sid] : sid \in DOMAIN studentStore}
                                    |-> TRUE]
    /\ userAccounts = <<>>
    /\ reg = [g \in RegRequests |-> IdleReg]
    /\ clients = <<>>
    /\ sockets = <<>>
    /\ sent = NothingSent
    /\ electionStore = <<>>
    /\ electionPositionStore = {}

\* The tally reads of anyone, in any interleaving, over a ledger at rest.
NextTally ==
    \/ \E q \in TallyRequests, user \in Requesters, positionId \in PositionIds :
            TallyArrive(q, user, positionId)
    \/ \E q \in TallyRequests : TallyAfterSetting(q)
    \/ \E q \in TallyRequests : TallyAfterVotes(q)

SpecTally == InitTally /\ [][NextTally]_vars

\* A directory and a ledger for the participation report: up to MaxStudents
\* registered students, each in one of the departments, and up to MaxCasts
\* votes of theirs for the candidate of Init on any position.
InitStats ==
    /\ departmentStore = DepartmentIds
    /\ \E n \in 0..MaxStudents :
            /\ studentStore = SubSeq(StudentNumbers, 1, n)
            /\ studentDepartmentId \in [1..n -> DepartmentIds]
    /\ userStore = [u \in Usernames |-> IF u = "admin" THEN RoleAdmin ELSE RoleStudent]
    /\ positionStore = {1}
    /\ positionIdCounter = 2
    /\ candidateStore = IF studentStore = <<>> THEN <<>>
                        ELSE (1 :> [studentId |-> 1, positionId |-> 1])
    /\ candidateIdCounter = Len(candidateStore) + 1
    /\ \E n \in 0..MaxCasts :
            voteStore \in [1..n -> {vote \in Votes : vote.candidateId = 1}]
    /\ voteIdCounter = Len(voteStore) + 1
    /\ settingStore = [k \in SettingKeys |-> "true"]
    /\ req = [r \in Requests |-> IdleRequest]
    /\ resets = [r \in Requests |-> FALSE]
    /\ casts = 0
    /\ resetLog = NoResetLog
    /\ tally = [q \in TallyRequests |-> IdleTally]
    /\ reads = 0
    /\ stats = IdleStats
    /\ probe = IdleProbe
    /\ deleteLog = NoDeleteLog
    /\ verifiedStudentIdStore = [id \in {studentStore[sid] : sid \in DOMAIN studentStore}
                                    |-> TRUE]
    /\ userAccounts = <<>>
    /\ reg = [g \in RegRequests |-> IdleReg]
    /\ clients = <<>>
    /\ sockets = <<>>
    /\ sent = NothingSent
    /\ electionStore = <<>>
    /\ electionPositionStore = {}

\* The votes-by-department requests over that directory, and the reset of
\* the administrator, which can fall between any two awaits of a request.
NextStats ==
    \/ ResetVotes("admin")
    \/ StatsArrive
    \/ StatsAfterDepartments
    \/ StatsAfterStudents
    \/ StatsAfterVotes

SpecStats == InitStats /\ [][NextStats]_vars

\* ================================================================ claims
\* Vocabulary of the properties below.
Done(r) == req[r].pc = "done"
Answered(r, response) == Done(r) /\ req[r].resp = response
Succeeded(r) == Done(r) /\ req[r].resp.status = 201
\* The request stored a vote: its `vote` local holds the id createVote assigned.
Inserted(r) == req[r].vote # 0
Authenticated(r) == req[r].user # NoUser
HasProfile(user) == \E sid \in DOMAIN studentStore : studentStore[sid] = user
ReadVotingOpen(r) == req[r].votingEnabled = "true"
SamePair(r1, r2) ==
    /\ req[r1].user = req[r2].user
    /\ req[r1].body.wellFormed /\ req[r2].body.wellFormed
    /\ req[r1].body.positionId = req[r2].body.positionId
NamesValidCandidate(r) ==
    /\ req[r].body.wellFormed
    /\ CandidateBelongsToPosition(req[r].body.candidateId, req[r].body.positionId)

\* The error taxonomy of the specification, as far as the handler's responses
\* express it; no response of the handler stands for PositionUnavailable or
\* CandidateMismatch.
Outcome(response) ==
    CASE response = VoteCast -> "Ok"
      [] response = VotingClosed -> "VotingClosed"
      [] response = ProfileNotFound -> "VoterNotEligible"
      [] response = AlreadyVoted -> "DuplicateVote"
      [] response.status = 500 -> "PersistenceError"
      [] OTHER -> "Other"

\* C1: in every reachable state the ledger holds at most one vote for each
\* (studentId, positionId) pair.
C1_OneVotePerPair ==
    \A i, j \in DOMAIN voteStore :
        (/\ voteStore[i].studentId = voteStore[j].studentId
         /\ voteStore[i].positionId = voteStore[j].positionId) => i = j

\* Two casts of one eligible voter for one position, each naming a valid
\* candidate and read with voting open, neither preceded by a vote for the
\* pair and neither crossed by a reset: the requests ran concurrently.
ConcurrentCasts(r1, r2) ==
    /\ r1 # r2 /\ Done(r1) /\ Done(r2)
    /\ SamePair(r1, r2) /\ HasProfile(req[r1].user)
    /\ NamesValidCandidate(r1) /\ NamesValidCandidate(r2)
    /\ ReadVotingOpen(r1) /\ ReadVotingOpen(r2)
    /\ ~req[r1].votedAtArrival /\ ~req[r2].votedAtArrival
    /\ ~resets[r1] /\ ~resets[r2]

\* C2: of the concurrent casts for one (voter, position) pair exactly one is
\* answered with success: at least one is, and no two are.
C2_ExactlyOneSuccess ==
    \A r1, r2 \in Requests :
        ConcurrentCasts(r1, r2) =>
            /\ Succeeded(r1) \/ Succeeded(r2)
            /\ ~(Succeeded(r1) /\ Succeeded(r2))

\* C3: a cast that names a candidate which does not exist, or whose stored
\* positionId differs from the positionId of the request, is never answered
\* with success and stores no vote (what every reading of "fails with
\* CandidateMismatch and never creates a vote" implies).
C3_CandidateMismatchRejected ==
    \A r \in Requests :
        (Done(r) /\ req[r].body.wellFormed /\ ~NamesValidCandidate(r)) =>
            ~Succeeded(r) /\ ~Inserted(r)

\* C4: the candidate referenced by each stored vote belongs to the position
\* referenced by that vote.
C4_VoteCandidateInPosition ==
    \A id \in DOMAIN voteStore :
        CandidateBelongsToPosition(voteStore[id].candidateId, voteStore[id].positionId)

\* C5 as claimed: a cast handled while votingEnabled is not "true" is answered
\* VotingClosed and stores no vote, whoever sent it, authenticated or not.
C5_VotingClosedForAnyRequester ==
    \A r \in Requests :
        (Done(r) /\ req[r].settingAtArrival # "true") =>
            Answered(r, VotingClosed) /\ ~Inserted(r)

\* C5 as amended: a cast of an authenticated requester handled while
\* votingEnabled is not "true" is answered VotingClosed, with or without a
\* student profile and whatever the body; an unauthenticated cast is refused
\* by the /api/student/* middleware (401); neither stores a vote.
C5_VotingClosedForAuthenticated ==
    \A r \in Requests :
        (Done(r) /\ req[r].settingAtArrival # "true") =>
            /\ ~Inserted(r)
            /\ Authenticated(r) => Answered(r, VotingClosed)
            /\ ~Authenticated(r) => Answered(r, AuthRequired)

C5_Witness ==
    \E r \in Requests :
        /\ Answered(r, VotingClosed) /\ req[r].settingAtArrival = "false"
        /\ HasProfile(req[r].user) /\ NamesValidCandidate(r)

\* C6 as claimed: a cast that arrives when the ledger holds a vote for its
\* (voter, position) pair is answered DuplicateVote and stores nothing, as
\* long as no reset ran since it arrived.
C6_LaterCastIsDuplicate ==
    \A r \in Requests :
        (Done(r) /\ req[r].votedAtArrival /\ ~resets[r]) =>
            Answered(r, AlreadyVoted) /\ ~Inserted(r)

\* C6 as amended: the same, for the casts handled while voting is enabled; a
\* later cast handled after voting was switched off is answered VotingClosed.
C6_LaterCastIsDuplicateWhileOpen ==
    \A r \in Requests :
        (Done(r) /\ req[r].votedAtArrival /\ ~resets[r]) =>
            /\ ~Inserted(r)
            /\ ReadVotingOpen(r) => Answered(r, AlreadyVoted)
            /\ ~ReadVotingOpen(r) => Answered(r, VotingClosed)

\* A later cast for another candidate than the one of the stored vote was
\* answered DuplicateVote.
C6_Witness ==
    \E r \in Requests :
        /\ Answered(r, AlreadyVoted) /\ req[r].votedAtArrival /\ ~resets[r]
        /\ \E id \in DOMAIN voteStore :
                /\ voteStore[id].positionId = req[r].body.positionId
                /\ voteStore[id].candidateId # req[r].body.candidateId

\* C7: a cast whose insert createVote rejected because a vote for the pair
\* exists is answered DuplicateVote, as a sequential duplicate is.
C7_RejectedInsertIsDuplicateVote ==
    \A r \in Requests :
        (Done(r) /\ req[r].storageHasVoted) => Answered(r, AlreadyVoted)

\* C8: a cast for a positionId that is not in the position catalog is never
\* answered with success and stores no vote, and every stored vote references
\* a position of the catalog.
C8_UnknownPositionRejected ==
    /\ \A r \in Requests :
            (Done(r) /\ req[r].body.wellFormed
                     /\ ~PositionExists(req[r].body.positionId)) =>
                ~Succeeded(r) /\ ~Inserted(r)
    /\ \A id \in DOMAIN voteStore : PositionExists(voteStore[id].positionId)

\* C9 as claimed: a cast of an authenticated user without a student profile
\* is answered VoterNotEligible and stores no vote.
C9_NoProfileNotEligible ==
    \A r \in Requests :
        (Done(r) /\ Authenticated(r) /\ ~HasProfile(req[r].user)) =>
            Answered(r, ProfileNotFound) /\ ~Inserted(r)

\* C9 as amended: the same, for the casts handled while voting is enabled;
\* with voting closed the answer is VotingClosed. No vote is stored.
C9_NoProfileNotEligibleWhileOpen ==
    \A r \in Requests :
        (Done(r) /\ Authenticated(r) /\ ~HasProfile(req[r].user)) =>
            /\ ~Inserted(r)
            /\ ReadVotingOpen(r) => Answered(r, ProfileNotFound)
            /\ ~ReadVotingOpen(r) => Answered(r, VotingClosed)

C9_Witness ==
    \E r \in Requests :
        /\ Answered(r, ProfileNotFound) /\ req[r].user = "admin"
        /\ NamesValidCandidate(r)

\* The first violated precondition of a cast, in the order of the
\* specification: voting enabled, position available, candidate matches the
\* position, voter eligible, no vote for the pair yet.
FirstViolated(r) ==
    IF ~ReadVotingOpen(r) THEN "VotingClosed"
    ELSE IF ~PositionExists(req[r].body.positionId) THEN "PositionUnavailable"
    ELSE IF ~NamesValidCandidate(r) THEN "CandidateMismatch"
    ELSE IF ~HasProfile(req[r].user) THEN "VoterNotEligible"
    ELSE IF req[r].votedAtArrival THEN "DuplicateVote"
    ELSE "None"

\* C10: a cast that violates preconditions is answered with the outcome of
\* the first violated one in the order of the specification.
C10_FirstViolatedPreconditionReported ==
    \A r \in Requests :
        (/\ Done(r) /\ Authenticated(r) /\ req[r].body.wellFormed /\ ~resets[r]
         /\ FirstViolated(r) # "None") =>
            Outcome(req[r].resp) = FirstViolated(r)

\* A reset ran, and no cast request arrived since the last one: every slot a
\* request used is marked by the reset.
NoCastSinceReset ==
    /\ \E r \in Requests : resets[r]
    /\ \A r \in Requests : req[r].pc = "idle" \/ resets[r]

\* The request stored its vote and a later reset found it answered.
VotedBeforeReset(r) == Done(r) /\ Inserted(r) /\ resets[r]

\* The request arrived after the last reset, when the ledger held no vote for
\* its pair: the first cast for the pair after the reset.
FirstCastAfterReset(r) ==
    /\ req[r].pc # "idle" /\ ~resets[r] /\ ~req[r].votedAtArrival

\* The ledger holds the vote the request asked for.
LedgerHoldsVoteOf(r) ==
    \E id \in DOMAIN voteStore :
        /\ voteStore[id].studentId = req[r].student
        /\ voteStore[id].positionId = req[r].body.positionId
        /\ voteStore[id].candidateId = req[r].body.candidateId

IsAdmin(user) == user # NoUser /\ userStore[user] = RoleAdmin

\* C13: a reset-votes request of an unauthenticated user is answered 401 and
\* one of an authenticated non-admin 403, and the ledger after either is the
\* ledger before it; a request that changed the ledger is an admin's, and
\* an admin's request leaves the ledger empty.
C13_ResetIsAdminOnly ==
    resetLog # NoResetLog =>
        /\ resetLog.user = NoUser =>
                resetLog.resp.status = 401 /\ ~resetLog.changed
        /\ (resetLog.user # NoUser /\ ~IsAdmin(resetLog.user)) =>
                resetLog.resp.status = 403 /\ ~resetLog.changed
        /\ resetLog.changed => IsAdmin(resetLog.user)
        /\ IsAdmin(resetLog.user) => resetLog.empty

\* A student's reset-votes request was refused with the student's vote in the
\* ledger, and the vote is still there.
C13_Witness ==
    /\ resetLog.user = "S1001" /\ resetLog.resp = AdminRequired
    /\ resetLog.held /\ ~resetLog.changed /\ voteStore # <<>>

\* The ledger after the step is the ledger before it with one vote appended.
Appended == Len(voteStore') = Len(voteStore) + 1 /\ SubSeq(voteStore', 1, Len(voteStore)) = voteStore

\* C14: every step leaves the stored votes as they are (same voter, position
\* and candidate, none removed), or appends one vote, or is the reset-votes
\* request of an admin, which empties the ledger; a step of a cast request
\* (the steps that change req) never changes or removes a stored vote.
C14_LedgerAppendOnly ==
    [][/\ \/ voteStore' = voteStore
          \/ Appended
          \/ voteStore' = <<>> /\ \E user \in Requesters : IsAdmin(user) /\ ResetVotes(user)
       /\ req' # req => (voteStore' = voteStore \/ Appended)]_vars

\* A second vote was stored behind the first, which is as its request stored
\* it.
C14_Witness ==
    \E r1, r2 \in Requests :
        /\ Done(r1) /\ Done(r2) /\ ~resets[r1] /\ ~resets[r2]
        /\ req[r1].vote = 1 /\ req[r2].vote = 2 /\ Len(voteStore) = 2
        /\ voteStore[1] = [studentId |-> req[r1].student,
                           positionId |-> req[r1].body.positionId,
                           candidateId |-> req[r1].body.candidateId]
        /\ req[r1].body.positionId # req[r2].body.positionId

\* C19: a cast whose vote was recorded is answered with success, whether the
\* sends of its notification return or throw, and its vote stays in the
\* ledger until a reset.
C19_SendFailureKeepsSuccess ==
    \A r \in Requests :
        (Done(r) /\ Inserted(r)) =>
            /\ Answered(r, VoteCast)
            /\ LedgerHoldsVoteOf(r) \/ resets[r]

\* C20: by the time a cast is answered, it has called broadcastUpdate with
\* voteCreated and the positionId and candidateId of its vote exactly once if
\* it stored a vote, and not at all if it stored none; the call never
\* precedes the insert of the vote.
C20_VoteCreatedOncePerRecordedVote ==
    \A r \in Requests :
        /\ req[r].broadcasts # <<>> =>
                /\ Inserted(r)
                /\ LedgerHoldsVoteOf(r) \/ resets[r]
                /\ req[r].broadcasts = <<VoteCreated(req[r].body.positionId,
                                                     req[r].body.candidateId)>>
        /\ (Done(r) /\ Inserted(r)) => Len(req[r].broadcasts) = 1
        /\ (Done(r) /\ ~Inserted(r)) => req[r].broadcasts = <<>>

\* Of two concurrent casts for one pair, one stored its vote and notified the
\* observers, the other was rejected by createVote and notified nobody.
C20_Witness ==
    \E r1, r2 \in Requests :
        /\ Answered(r1, VoteCast) /\ LedgerHoldsVoteOf(r1)
        /\ req[r1].broadcasts = <<VoteCreated(req[r1].body.positionId,
                                              req[r1].body.candidateId)>>
        /\ Answered(r2, StorageDuplicate) /\ req[r2].broadcasts = <<>>

\* The read took its snapshot of the votes in this step.
TakesSnapshot(q) == tally[q].pc = "awaitSetting" /\ tally'[q].pc = "awaitVotes"

\* C12: no step leaves the ledger with some but not all of its votes removed
\* (each keeps the votes, appends one, or empties the ledger), and every read
\* takes its votes from the ledger of one state, whole; so a read interleaved
\* with a reset holds all the pre-reset votes of its position or none.
C12_ResetIsAtomic ==
    [][/\ \/ voteStore' = voteStore
          \/ Appended
          \/ voteStore' = <<>>
       /\ \A q \in TallyRequests :
            TakesSnapshot(q) =>
                /\ tally'[q].ledger = voteStore
                /\ tally'[q].votes = VotesByPosition(voteStore, tally[q].positionId)]_vars

\* A read took its snapshot of a ledger of two votes, a reset emptied the
\* ledger, and the read has yet to count its votes.
C12_Witness ==
    \E q \in TallyRequests :
        /\ tally[q].pc = "awaitVotes" /\ Len(tally[q].ledger) = 2
        /\ tally[q].votes # <<>> /\ voteStore = <<>>

\* The read was answered with the counts.
Served(q) == tally[q].pc = "done" /\ tally[q].resp = TallyServed

\* The number of stored votes for the candidate on the position.
StoredVotes(positionId, candidateId) ==
    Cardinality({id \in DOMAIN voteStore :
                    /\ voteStore[id].positionId = positionId
                    /\ voteStore[id].candidateId = candidateId})

\* The counts are the tally of the position: one entry per candidate with a
\* stored vote on the position, with the number of those votes, and no other
\* entry.
IsTallyOf(counts, positionId) ==
    /\ \A c \in CandidateIds :
            IF StoredVotes(positionId, c) = 0
            THEN \A i \in DOMAIN counts : counts[i].candidateId # c
            ELSE \E i \in DOMAIN counts :
                    /\ counts[i] = [candidateId |-> c, count |-> StoredVotes(positionId, c)]
                    /\ \A j \in DOMAIN counts : counts[j].candidateId = c => j = i
    /\ \A i \in DOMAIN counts : counts[i].candidateId \in CandidateIds

\* C15: getVotesCountByPosition(p) is the tally of p for every position p,
\* and so is what a tally read of p over the ledger is answered with.
C15_TallyCountsStoredVotes ==
    /\ \A p \in PositionIds : IsTallyOf(GetVotesCountByPosition(p), p)
    /\ \A q \in TallyRequests : Served(q) => IsTallyOf(tally[q].result, tally[q].positionId)

\* A read of a position was answered with one candidate at count 1 while the
\* ledger holds a second vote, for another position.
C15_Witness ==
    \E q \in TallyRequests :
        /\ Served(q) /\ Len(voteStore) = 2
        /\ \E c \in CandidateIds : tally[q].result = <<[candidateId |-> c, count |-> 1]>>
        /\ \E id \in DOMAIN voteStore : voteStore[id].positionId # tally[q].positionId

\* C16: two tally reads of one position, with no cast or reset between them
\* (the ledger is at rest), are answered with identical counts, and no step of
\* a tally read changes the ledger or any other state than the read's own.
C16_TallyReadIsIdempotent ==
    /\ [](\A q1, q2 \in TallyRequests :
            (/\ Served(q1) /\ Served(q2)
             /\ tally[q1].positionId = tally[q2].positionId) =>
                tally[q1].result = tally[q2].result)
    /\ [][tally' # tally => UNCHANGED <<castVars, resetLog>>]_vars

\* Two reads of one position were both answered with a count of 2.
C16_Witness ==
    \E q1, q2 \in TallyRequests :
        /\ q1 # q2 /\ Served(q1) /\ Served(q2)
        /\ tally[q1].positionId = tally[q2].positionId
        /\ tally[q1].result = tally[q2].result
        /\ \E c \in CandidateIds : tally[q1].result = <<[candidateId |-> c, count |-> 2]>>

\* --------------------------------------------------- participation report
\* The report has been answered.
StatsDone == stats.pc = "done"

\* The students of the department in the directory the report read.
Cohort(departmentId) ==
    {sid \in DOMAIN stats.students : stats.students[sid] = departmentId}

\* The students of the department with at least one vote in the ledger the
\* report read.
Voters(departmentId) ==
    {sid \in Cohort(departmentId) :
        \E i \in DOMAIN stats.votes : stats.votes[i].studentId = sid}

\* The entries of the answer for the department.
EntriesOf(departmentId) ==
    {i \in DOMAIN stats.result : stats.result[i].departmentId = departmentId}

\* p is an integer nearest to 100 * k / n.
IsNearestPercent(p, k, n) ==
    /\ 2 * (100 * k - p * n) <= n
    /\ 2 * (p * n - 100 * k) <= n

\* C17: the participation the report gives for a department with students
\* is the number of its distinct students with at least one vote in the
\* ledger, divided by the number of its students, as a percentage rounded to
\* the nearest integer, and it lies between 0 and 100.
C17_ParticipationIsRoundedShare ==
    StatsDone =>
        \A d \in stats.departments :
            Cohort(d) # {} =>
                /\ Cardinality(EntriesOf(d)) = 1
                /\ \A i \in EntriesOf(d) :
                        /\ stats.result[i].percentage \in 0..100
                        /\ IsNearestPercent(stats.result[i].percentage,
                                            Cardinality(Voters(d)),
                                            Cardinality(Cohort(d)))

\* A department of three students, one of whom cast both votes of the
\* ledger, is reported at 33.
C17_Witness ==
    /\ StatsDone
    /\ \E d \in stats.departments :
            /\ Cardinality(Cohort(d)) = 3
            /\ Cardinality(Voters(d)) = 1
            /\ Len(stats.votes) = 2
            /\ \A i \in DOMAIN stats.votes : stats.votes[i].studentId \in Voters(d)
            /\ \E i \in EntriesOf(d) : stats.result[i].percentage = 33

\* C18: the report gives the value 0 for a department without students.
C18_EmptyCohortYieldsZero ==
    StatsDone =>
        \A d \in stats.departments :
            Cohort(d) = {} =>
                \E i \in EntriesOf(d) : stats.result[i].percentage = 0

\* ------------------------------------------------ failed casts and the ledger
\* The cast was answered with a failure outcome: a 4xx or a 5xx response.
Failed(r) == Done(r) /\ req[r].resp.status >= 400

\* C21: a cast request that is answered with a failure outcome has inserted
\* no vote into the ledger; only a request answered with success has.
C21_FailedCastInsertsNothing ==
    \A r \in Requests : Failed(r) => ~Inserted(r)

\* ------------------------------------------------- tallies at query time
\* The count the answer gives the candidate: 0 without an entry.
CountFor(counts, candidateId) ==
    IF \E i \in DOMAIN counts : counts[i].candidateId = candidateId
    THEN (CHOOSE entry \in {counts[i] : i \in DOMAIN counts} :
                entry.candidateId = candidateId).count
    ELSE 0

\* The read is answered with the counts in this step.
IsServed(q) ==
    /\ tally[q].pc = "awaitVotes"
    /\ tally'[q].pc = "done" /\ tally'[q].resp = TallyServed

\* C22: a tally read that no reset crossed is answered, for every candidate,
\* with at least the votes the ledger held for the candidate on the position
\* when the read started (every vote of a cast answered with success before,
\* none of them when a reset completed since) and at most the votes the
\* ledger holds for it when the read is answered: no vote that left the
\* ledger before the read started is counted, and none that was in it is
\* missed.
C22_TallyIsOfLedgerAtQueryTime ==
    [][\A q \in TallyRequests :
        (IsServed(q) /\ ~tally[q].resetSince) =>
            \A c \in CandidateIds :
                /\ tally[q].arrivalCount[c] <= CountFor(tally'[q].result, c)
                /\ CountFor(tally'[q].result, c)
                        <= VotesIn(voteStore, tally[q].positionId, c)]_vars

\* A read of the position of a cast that had been answered with success
\* started after a reset emptied the ledger, and was answered with no count;
\* the next cast for a position was answered with success, and its vote is in
\* the ledger again.
C22_Witness ==
    \E q \in TallyRequests :
        /\ Served(q) /\ ~tally[q].resetSince
        /\ tally[q].castBefore
        /\ \A c \in CandidateIds : tally[q].arrivalCount[c] = 0
        /\ tally[q].result = <<>>

\* A read that started after a cast for its position was answered with
\* success, the vote in the ledger, was answered with a count of 1 for the
\* candidate of the vote.
C22_WitnessIncluded ==
    \E q \in TallyRequests :
        /\ Served(q) /\ ~tally[q].resetSince
        /\ tally[q].castBefore
        /\ \E c \in CandidateIds :
                /\ tally[q].arrivalCount[c] = 1
                /\ tally[q].result = <<[candidateId |-> c, count |-> 1]>>

\* ------------------------------------------------- visibility of results
\* C23: a tally read of a requester who is not an administrator is answered
\* with counts only when resultsVisible is enabled and voting is closed, and
\* a read of an administrator is always answered with counts. (Stated for
\* the settings at rest, as under SpecTally: the settings the read found are
\* the settings of the state.)
C23_StudentReadsOnlyAfterClose ==
    \A q \in TallyRequests :
        tally[q].pc = "done" =>
            IF IsAdmin(tally[q].user) THEN Served(q)
            ELSE Served(q) =>
                    /\ settingStore["resultsVisible"] = "true"
                    /\ settingStore["votingEnabled"] # "true"

\* --------------------------------------------- the setting at the insert
\* C24: votingEnabled is 'true' in the state in which a vote is inserted
\* into the ledger, whatever the interleaving of the casts with the
\* administrator's updates of the setting.
C24_VotingEnabledAtInsert ==
    [][Appended => settingStore["votingEnabled"] = "true"]_vars

\* ------------------------------------------------- whose vote is stored
\* The id of the student profile of the user.
ProfileOf(user) == CHOOSE sid \in DOMAIN studentStore : studentStore[sid] = user

\* The request inserts the last vote of the ledger in this step.
InsertsVote(r) ==
    /\ Appended
    /\ req[r].pc = "inCreateVote" /\ req'[r].pc = "awaitCreateVote"

\* C25: every vote is stored with the id of the student profile of the
\* authenticated user who sent the cast request that inserts it, whatever
\* studentId the body of the request carries.
C25_VoteBearsSessionStudent ==
    [][Appended =>
        \E r \in Requests :
            /\ InsertsVote(r)
            /\ Authenticated(r) /\ HasProfile(req[r].user)
            /\ voteStore'[Len(voteStore')].studentId = ProfileOf(req[r].user)]_vars

\* A cast whose body carries the studentId of another student was answered
\* with success, and its vote is stored with the id of the sender's profile.
C25_Witness ==
    \E r \in Requests :
        /\ Succeeded(r) /\ ~resets[r]
        /\ req[r].body.studentId \notin {NoStudent, ProfileOf(req[r].user)}
        /\ req[r].vote \in DOMAIN voteStore
        /\ voteStore[req[r].vote].studentId = ProfileOf(req[r].user)

\* ------------------------------------------------------- has-voted probe
\* The probe was answered with { hasVoted }.
ProbeAnswered == probe.pc = "done" /\ probe.resp = ProbeServed

\* The ledger the probe searched holds a vote of the requesting student for
\* the position of the probe.
HeldAtRead ==
    \E id \in DOMAIN probe.ledger :
        /\ probe.ledger[id].studentId = ProfileOf(probe.user)
        /\ probe.ledger[id].positionId = probe.positionId

\* C26: the probe answers hasVoted = true exactly when the ledger holds a
\* vote for (requesting student, positionId) at the time of its read, and no
\* step of a probe changes the ledger or any other part of the store.
C26_ProbeTellsLedger ==
    /\ [](ProbeAnswered => (probe.hasVoted <=> HeldAtRead))
    /\ [][probe' # probe =>
            UNCHANGED <<castVars, resetLog, tally, reads, stats, deleteLog,
                        laterVars>>]_vars

\* The student's cast for the position was answered with success and a reset
\* emptied the ledger; the probe that read the empty ledger answered false.
C26_Witness ==
    /\ ProbeAnswered /\ ~probe.hasVoted
    /\ probe.castBefore /\ probe.ledger = <<>>

\* The student's cast for the position was answered with success; the probe
\* that read the ledger with the vote answered true.
C26_WitnessTrue ==
    /\ ProbeAnswered /\ probe.hasVoted
    /\ probe.castBefore /\ Len(probe.ledger) = 1

\* ---------------------------------------------------- deleting candidates
\* A stored vote names the candidate.
Referenced(id) == \E v \in DOMAIN voteStore : voteStore[v].candidateId = id

\* C27: a delete-candidate request for a candidate that a stored vote names
\* changes neither the candidates nor the votes, and is answered 400 when the
\* administrator sends it; a candidate leaves the store only in a step in
\* which no stored vote names it, and the votes stay as they are.
C27_ReferencedCandidateStays ==
    /\ [](deleteLog # NoDeleteLog =>
            /\ deleteLog.referenced =>
                    /\ ~deleteLog.changed /\ ~deleteLog.removed
                    /\ IsAdmin(deleteLog.user) => deleteLog.resp = CannotDelete
            /\ deleteLog.resp = CandidateDeleted <=> deleteLog.removed)
    /\ [][\A id \in DOMAIN candidateStore \ DOMAIN candidateStore' :
            ~Referenced(id) /\ voteStore' = voteStore]_vars

\* The administrator's request to delete a candidate that a stored vote
\* names was answered 400, and the candidate and the vote are still stored.
C27_Witness ==
    /\ deleteLog # NoDeleteLog
    /\ deleteLog.referenced /\ IsAdmin(deleteLog.user)
    /\ deleteLog.resp = CannotDelete
    /\ deleteLog.id \in DOMAIN candidateStore /\ Referenced(deleteLog.id)

\* The accounts whose username is the student id: the one of the directory
\* and those registration created.
AccountsOf(studentId) ==
    (IF studentId \in DOMAIN userStore THEN 1 ELSE 0)
        + Cardinality({n \in DOMAIN userAccounts : userAccounts[n] = studentId})

\* The profiles whose studentId is the student id.
ProfilesOf(studentId) ==
    Cardinality({sid \in DOMAIN studentStore : studentStore[sid] = studentId})

\* C28: for every student id, at most one user account and at most one
\* student profile exist, whatever the interleaving of the registration
\* requests for that id.
C28_RegisteredAtMostOnce ==
    \A studentId \in RegistrationIds :
        /\ AccountsOf(studentId) <= 1
        /\ ProfilesOf(studentId) <= 1

\* The connections whose last announcement with the hook's identify, handled
\* by the server, was the role.
Announced(role) == {ws \in DOMAIN sockets : sockets[ws].announced = role}

\* The step is an administrator-targeted broadcast.
AdminBroadcast == sent' # sent /\ sent'.role = RoleAdmin

\* C29: a client that announced admin with the hook's identify is registered
\* with type admin and is sent every later admin-targeted broadcast while
\* its connection is open; a client of another type is sent none.
C29_AdminClientGetsAdminBroadcasts ==
    /\ [](\A ws \in Announced("admin") : clients[ws].type = "admin")
    /\ [][AdminBroadcast =>
            /\ \A ws \in Announced("admin") :
                    sockets[ws].readyState = "OPEN" => ws \in sent'.to
            /\ \A ws \in sent'.to : clients[ws].type = "admin"]_vars

\* The position ids the election-position store links to the election.
LinkedPositionIds(electionId) ==
    {ep.positionId : ep \in {e \in electionPositionStore : e.electionId = electionId}}

\* The array holds no id twice.
NoDuplicates(array) ==
    \A i, j \in DOMAIN array : array[i] = array[j] => i = j

\* C30: the positions array of every election holds exactly the position
\* ids the election-position store links to it, each at most once.
C30_PositionsArrayMatchesLinks ==
    \A id \in DOMAIN electionStore :
        /\ {electionStore[id].positions[i] : i \in DOMAIN electionStore[id].positions}
                = LinkedPositionIds(id)
        /\ NoDuplicates(electionStore[id].positions)

====================================================================
